---- MODULE Spec2Model ----
(***************************************************************************)
(* A model of the request-processing core of starlette: the application    *)
(* object that composes the middleware chain (applications.py), the        *)
(* error boundary ServerErrorMiddleware (middleware/errors.py) and the     *)
(* gzip responder (middleware/gzip.py) with the header collection it       *)
(* edits, and the ordered multi-maps ImmutableMultiDict, MultiDict,        *)
(* QueryParams and Headers (datastructures.py).                            *)
(***************************************************************************)
EXTENDS Integers, Sequences, FiniteSets, TLC

VARIABLES
    debug,               \* Starlette._debug
    exception_handlers,  \* Starlette.exception_handlers: a dict, as its items in insertion order
    user_middleware,     \* Starlette.user_middleware: list of Middleware descriptors
    middleware_stack,    \* Starlette.middleware_stack: the built chain, outermost instance first
    nextId,              \* identity of the next object to be constructed
    mutations,           \* number of configuration changes made after construction
    built,               \* what the last build_middleware_stack run read, left behind and replaced
    req,                 \* per request: the state of one call of the application
    cells,               \* the objects the layers create per call, by identity, when
                         \* several calls are in progress at once
    md                   \* an ordered multi-map or a header collection, and the last
                         \* method call on it

vars == <<debug, exception_handlers, user_middleware, middleware_stack, nextId,
          mutations, built, req, cells, md>>

\* the application object
selfvars == <<debug, exception_handlers, user_middleware, middleware_stack, nextId,
              mutations, built>>

\* what a call of the application served on its own leaves alone
appvars == <<selfvars, cells, md>>

----------------------------------------------------------------------------
(* Bounds of the model. *)

\* configuration changes (debug assignments, add_middleware, add_exception_handler)
MaxMutations == 2
\* messages the innermost application sends in one request
MaxMsgs == 3

----------------------------------------------------------------------------
(* Small helpers on sequences. *)

Range(s) == {s[i] : i \in 1..Len(s)}

\* sub in s, for two str / bytes values
Contains(s, sub) ==
    \E i \in 1..(Len(s) - Len(sub) + 1) : SubSeq(s, i, i + Len(sub) - 1) = sub

----------------------------------------------------------------------------
(* Handlers: user callables taking (request, exc).  A handler is a plain   *)
(* function, an object with __call__, or a functools.partial around one.  *)

None == [name |-> "None"]

Fn(name, coroutine, call_coroutine, raises, status) ==
    [partial |-> FALSE, name |-> name, coroutine |-> coroutine,
     call_coroutine |-> call_coroutine, raises |-> raises, status |-> status]

Partial(f) == [partial |-> TRUE, func |-> f]

sync_handler     == Fn("sync_handler", FALSE, FALSE, FALSE, 500)
async_handler    == Fn("async_handler", TRUE, FALSE, FALSE, 500)
callable_handler == Fn("callable_handler", FALSE, TRUE, FALSE, 500)
failing_handler  == Fn("failing_handler", TRUE, FALSE, TRUE, 500)
not_found        == Fn("not_found", FALSE, FALSE, FALSE, 404)
partial_handler  == Partial(async_handler)

\* keys of the exception-handler map: an integer status code or an exception class
StatusKey(code) == [code |-> code, cls |-> ""]
ClassKey(cls) == [code |-> 0, cls |-> cls]

\* a dict as the sequence of its items; keys are unique
DictKeys(d) == {d[i].key : i \in 1..Len(d)}

DictGet(d, k) == (CHOOSE i \in 1..Len(d) : d[i].key = k)

\* d[k] = v: an existing key keeps its place, a new key goes last
DictSet(d, k, v) ==
    IF k \in DictKeys(d)
    THEN [i \in 1..Len(d) |-> IF d[i].key = k THEN [key |-> k, value |-> v] ELSE d[i]]
    ELSE Append(d, [key |-> k, value |-> v])

----------------------------------------------------------------------------
(* Middleware descriptors and instances. *)

\* Middleware(cls, **options)
Middleware(cls, options) == [cls |-> cls, options |-> options]

\* the router, constructed once by Starlette.__init__
RouterId == 0
Router == [id |-> RouterId, cls |-> "Router"]

\* ServerErrorMiddleware.__init__
ServerErrorMiddleware(id, app, options) ==
    [id |-> id, cls |-> "ServerErrorMiddleware", app |-> app,
     handler |-> options.handler, debug |-> options.debug]

\* ExceptionMiddleware(app, handlers, debug)
ExceptionMiddleware(id, app, options) ==
    [id |-> id, cls |-> "ExceptionMiddleware", app |-> app,
     handlers |-> options.handlers, debug |-> options.debug]

\* GZipMiddleware.__init__
GZipMiddleware(id, app, options) ==
    [id |-> id, cls |-> "GZipMiddleware", app |-> app,
     minimum_size |-> options.minimum_size]

\* cls(app=app, **options)
Instantiate(cls, id, app, options) ==
    CASE cls = "ServerErrorMiddleware" -> ServerErrorMiddleware(id, app, options)
      [] cls = "ExceptionMiddleware" -> ExceptionMiddleware(id, app, options)
      [] cls = "GZipMiddleware" -> GZipMiddleware(id, app, options)

----------------------------------------------------------------------------
(* Starlette.build_middleware_stack *)

\* mutant: only the status code 500 counts as the generic key
PartitionHandlers_Only500(items, error_handler, handlers) ==
    LET generic == SelectSeq(items, LAMBDA it : it.key = StatusKey(500))
        others == SelectSeq(items, LAMBDA it : it.key # StatusKey(500))
    IN [error_handler |-> IF generic = <<>> THEN error_handler ELSE generic[Len(generic)].value,
        exception_handlers |-> others]

\* the loop over self.exception_handlers.items(): items[1..n] processed in order
RECURSIVE PartitionHandlers(_, _, _)
PartitionHandlers(items, error_handler, handlers) ==
    IF items = <<>> THEN [error_handler |-> error_handler, exception_handlers |-> handlers]
    ELSE LET key == Head(items).key
             value == Head(items).value
         IN IF key \in {StatusKey(500), ClassKey("Exception")}
            THEN PartitionHandlers(Tail(items), value, handlers)
            ELSE PartitionHandlers(Tail(items), error_handler, DictSet(handlers, key, value))

\* mutant: the descriptors are applied first to last
RECURSIVE WrapAll_Forward(_, _, _)
WrapAll_Forward(middleware, app, id) ==
    IF middleware = <<>> THEN [app |-> app, nextId |-> id]
    ELSE LET d == Head(middleware)
             inst == Instantiate(d.cls, id, Head(app).id, d.options)
         IN WrapAll_Forward(Tail(middleware), <<inst>> \o app, id + 1)

\* for cls, options in reversed(middleware): app = cls(app=app, **options)
\* app is the chain built so far, outermost instance first
RECURSIVE WrapAll(_, _, _)
WrapAll(middleware, app, id) ==
    IF middleware = <<>> THEN [app |-> app, nextId |-> id]
    ELSE LET d == middleware[Len(middleware)]
             inst == Instantiate(d.cls, id, Head(app).id, d.options)
         IN WrapAll(SubSeq(middleware, 1, Len(middleware) - 1), <<inst>> \o app, id + 1)

\* mutant: the boundary descriptor is stored into self.user_middleware
build_middleware_stack_Insert(self, id) ==
    LET p == PartitionHandlers(self.exception_handlers, None, <<>>)
        sem == Middleware("ServerErrorMiddleware",
                          [handler |-> p.error_handler, debug |-> self._debug])
        middleware ==
            <<sem>> \o self.user_middleware
            \o <<Middleware("ExceptionMiddleware",
                            [handlers |-> p.exception_handlers, debug |-> self._debug])>>
        w == WrapAll(middleware, <<self.router>>, id)
    IN [app |-> w.app, nextId |-> w.nextId,
        self |-> [self EXCEPT !.user_middleware = <<sem>> \o self.user_middleware]]

\* the chain returned, the next free identity, and self as the method leaves it
build_middleware_stack(self, id) ==
    LET p == PartitionHandlers(self.exception_handlers, None, <<>>)
        middleware ==
            <<Middleware("ServerErrorMiddleware",
                         [handler |-> p.error_handler, debug |-> self._debug])>>
            \o self.user_middleware
            \o <<Middleware("ExceptionMiddleware",
                            [handlers |-> p.exception_handlers, debug |-> self._debug])>>
        w == WrapAll(middleware, <<self.router>>, id)
    IN [app |-> w.app, nextId |-> w.nextId, self |-> self]

----------------------------------------------------------------------------
(* The application object. *)

Self == [_debug |-> debug, exception_handlers |-> exception_handlers,
         user_middleware |-> user_middleware, router |-> Router]

Inputs(self) == [_debug |-> self._debug, exception_handlers |-> self.exception_handlers,
                 user_middleware |-> self.user_middleware]

Ids(chain) == {chain[i].id : i \in 1..Len(chain)}

\* minimum_size options used by the gzip descriptors of the model
MinimumSizes == {1, 3}

GZip(n) == Middleware("GZipMiddleware", [minimum_size |-> n])

MiddlewareChoices == {GZip(n) : n \in MinimumSizes}

HandlerKeys == {StatusKey(500), ClassKey("Exception"), StatusKey(404), ClassKey("ValueError")}

\* handlers registered after construction
HandlerChoices == {async_handler, not_found}

Item(k, v) == [key |-> k, value |-> v]

\* the exception_handlers argument of the constructor
InitHandlerMaps ==
    { <<>>,
      <<Item(StatusKey(500), sync_handler)>>,
      <<Item(StatusKey(500), failing_handler)>>,
      <<Item(ClassKey("Exception"), partial_handler), Item(StatusKey(404), not_found)>>,
      <<Item(StatusKey(404), not_found), Item(StatusKey(500), callable_handler)>>,
      <<Item(StatusKey(500), async_handler), Item(ClassKey("Exception"), sync_handler),
        Item(ClassKey("ValueError"), not_found)>> }

\* the middleware argument of the constructor
InitMiddleware == {<<>>, <<GZip(1)>>, <<GZip(3), GZip(1)>>}


----------------------------------------------------------------------------
(* Header collections (datastructures.py).  A header list is a sequence of *)
(* <<name, value>> pairs of byte strings.                                  *)

\* mutant: the key is compared as spelled
Lower_AsSpelled(key) == key

\* str.lower() on the header names the model uses
Lower(key) ==
    CASE key = "Accept-Encoding" -> "accept-encoding"
      [] key = "ACCEPT" -> "accept"
      [] key = "VARY" -> "vary"
      [] key = "Content-Encoding" -> "content-encoding"
      [] key = "Content-Length" -> "content-length"
      [] key = "Content-Type" -> "content-type"
      [] key = "Accept" -> "accept"
      [] key = "Vary" -> "vary"
      [] OTHER -> key

\* indexes of the entries named key, ascending
FoundIndexes(list, key) == {i \in 1..Len(list) : list[i][1] = Lower(key)}

\* del list[idx]
DelAt(list, idx) == SubSeq(list, 1, idx - 1) \o SubSeq(list, idx + 1, Len(list))

\* for idx in reversed(indexes): del list[idx]
RECURSIVE DelReversed(_, _)
DelReversed(list, indexes) ==
    IF indexes = {} THEN list
    ELSE LET idx == CHOOSE i \in indexes : \A k \in indexes : k <= i
         IN DelReversed(DelAt(list, idx), indexes \ {idx})

\* Headers.__contains__
HeadersContains(list, key) == FoundIndexes(list, key) # {}

\* mutant: the last entry named key
HeadersGet_Last(list, key, default) ==
    IF FoundIndexes(list, key) = {} THEN default
    ELSE list[CHOOSE i \in FoundIndexes(list, key) : \A k \in FoundIndexes(list, key) : k <= i][2]

\* Headers.get: the first entry named key, or the default
HeadersGet(list, key, default) ==
    IF FoundIndexes(list, key) = {} THEN default
    ELSE list[CHOOSE i \in FoundIndexes(list, key) : \A k \in FoundIndexes(list, key) : i <= k][2]

\* mutant: every entry named key is removed and one is appended at the end
HeadersSet_AtEnd(list, key, value) ==
    Append(DelReversed(list, FoundIndexes(list, key)), <<Lower(key), value>>)

\* MutableHeaders.__setitem__
HeadersSet(list, key, value) ==
    LET found == FoundIndexes(list, key)
    IN IF found = {} THEN Append(list, <<Lower(key), value>>)
       ELSE LET first == CHOOSE i \in found : \A k \in found : i <= k
                kept == DelReversed(list, found \ {first})
            IN [kept EXCEPT ![first] = <<Lower(key), value>>]

\* MutableHeaders.__delitem__
HeadersDel(list, key) == DelReversed(list, FoundIndexes(list, key))

\* mutant: a value the header already lists is not added again
AddVaryHeader_Dedup(list, vary) ==
    IF HeadersContains(list, "vary") /\ Contains(HeadersGet(list, "vary", ""), vary) THEN list
    ELSE IF HeadersContains(list, "vary")
    THEN HeadersSet(list, "vary", HeadersGet(list, "vary", "") \o ", " \o vary)
    ELSE HeadersSet(list, "vary", vary)

\* MutableHeaders.add_vary_header
AddVaryHeader(list, vary) ==
    IF HeadersContains(list, "vary")
    THEN HeadersSet(list, "vary", HeadersGet(list, "vary", "") \o ", " \o vary)
    ELSE HeadersSet(list, "vary", vary)

----------------------------------------------------------------------------
(* Ordered multi-maps: ImmutableMultiDict, MultiDict and QueryParams.  A    *)
(* map is its class, _list (the pairs, in order) and _dict (a dict, as its  *)
(* items in insertion order).  Keys and values are str and int objects: an  *)
(* object is its type and its repr; 1 and "1" are different keys.           *)

Object(type, repr) == [type |-> type, repr |-> repr]

\* str(x)
str(x) == Object("str", x.repr)

\* the characters of the model's strings, in code point order
Alphabet == "-0123456789abcdefghijklmnopqrstuvwxyz"

Ord(c) == CHOOSE i \in 1..Len(Alphabet) : SubSeq(Alphabet, i, i) = c

\* s < t for two str (or bytes) values
RECURSIVE StrLt(_, _)
StrLt(s, t) ==
    IF t = "" THEN FALSE
    ELSE IF s = "" THEN TRUE
    ELSE IF SubSeq(s, 1, 1) # SubSeq(t, 1, 1) THEN Ord(SubSeq(s, 1, 1)) < Ord(SubSeq(t, 1, 1))
    ELSE StrLt(SubSeq(s, 2, Len(s)), SubSeq(t, 2, Len(t)))

\* x < y is defined for two str and for two int objects (the ints of the
\* model have one digit)
Orderable(x, y) == x.type = y.type

ObjectLt(x, y) == StrLt(x.repr, y.repr)

\* p < q for two tuples (k, v): the first items that differ are compared
PairOrderable(p, q) ==
    IF p[1] # q[1] THEN Orderable(p[1], q[1]) ELSE p[2] = q[2] \/ Orderable(p[2], q[2])

PairLt(p, q) == IF p[1] # q[1] THEN ObjectLt(p[1], q[1]) ELSE ObjectLt(p[2], q[2])

\* sorted(list) raises TypeError when it has to compare two items that have no order
Sortable(list) == \A i, j \in 1..Len(list) : PairOrderable(list[i], list[j])

\* list.insert at the place that keeps a sorted list sorted
RECURSIVE Insort(_, _)
Insort(sorted, p) ==
    IF sorted = <<>> THEN <<p>>
    ELSE IF PairLt(p, Head(sorted)) THEN <<p>> \o sorted
    ELSE <<Head(sorted)>> \o Insort(Tail(sorted), p)

\* sorted(list), for a list that can be sorted
RECURSIVE Sorted(_)
Sorted(list) == IF list = <<>> THEN <<>> ELSE Insort(Sorted(Tail(list)), Head(list))

\* [(k, v) for k, v in list if k != key]
Without(list, key) == SelectSeq(list, LAMBDA p : p[1] # key)

\* [(k, v) for k, v in list if k not in keys]
WithoutAll(list, keys) == SelectSeq(list, LAMBDA p : p[1] \notin keys)

\* [v for k, v in list if k == key]
ValuesOf(list, key) ==
    [i \in 1..Len(SelectSeq(list, LAMBDA p : p[1] = key)) |->
        SelectSeq(list, LAMBDA p : p[1] = key)[i][2]]

\* d[k], for a key of d
DictValue(d, k) == d[DictGet(d, k)].value

\* del d[k], for a key of d
DictDel(d, k) == SelectSeq(d, LAMBDA item : item.key # k)

\* d.update(pairs): for k, v in pairs: d[k] = v
RECURSIVE DictUpdate(_, _)
DictUpdate(d, pairs) ==
    IF pairs = <<>> THEN d
    ELSE DictUpdate(DictSet(d, Head(pairs)[1], Head(pairs)[2]), Tail(pairs))

\* d.items(), as pairs
DictItems(d) == [i \in 1..Len(d) |-> <<d[i].key, d[i].value>>]

MultiMap(cls, list, dict) == [cls |-> cls, _list |-> list, _dict |-> dict]

\* ImmutableMultiDict.__init__ (and MultiDict's, inherited) with one
\* positional argument, a list of pairs or another multi-map's multi_items()
ImmutableMultiDict(cls, value) == MultiMap(cls, value, DictUpdate(<<>>, value))

\* [(str(k), str(v)) for k, v in pairs]
StrPairs(pairs) == [i \in 1..Len(pairs) |-> <<str(pairs[i][1]), str(pairs[i][2])>>]

\* QueryParams.__init__ with a list of pairs
QueryParams(value) ==
    MultiMap("QueryParams", StrPairs(value),
             DictUpdate(<<>>, StrPairs(DictItems(ImmutableMultiDict("QueryParams", value)._dict))))

\* what a method call leaves: the map, the value returned, the exception raised
Result(m, ret, raised) == [m |-> m, ret |-> ret, raised |-> raised]
Ok(m, ret) == Result(m, ret, "")
KeyError(m) == Result(m, None, "KeyError")

getlist(m, key) == ValuesOf(m._list, key)
keys(m) == DictKeys(m._dict)
items(m) == DictItems(m._dict)
multi_items(m) == m._list

\* mutant: a missing key gives None
getitem_None(m, key) ==
    IF key \in DictKeys(m._dict) THEN Ok(m, DictValue(m._dict, key)) ELSE Ok(m, None)

\* ImmutableMultiDict.__getitem__
getitem(m, key) ==
    IF key \in DictKeys(m._dict) THEN Ok(m, DictValue(m._dict, key)) ELSE KeyError(m)

\* Mapping.get: self[key], the default on KeyError
get(m, key, default) ==
    IF getitem(m, key).raised = "KeyError" THEN Ok(m, default) ELSE getitem(m, key)

\* mutant: only the first occurrence leaves the list
pop_First(m, key, default) ==
    IF key \in DictKeys(m._dict)
    THEN Ok(MultiMap(m.cls,
                     LET i == CHOOSE i \in 1..Len(m._list) :
                                  m._list[i][1] = key /\ \A j \in 1..(i - 1) : m._list[j][1] # key
                     IN SubSeq(m._list, 1, i - 1) \o SubSeq(m._list, i + 1, Len(m._list)),
                     DictDel(m._dict, key)),
            DictValue(m._dict, key))
    ELSE Ok(m, default)

\* MultiDict.pop
pop(m, key, default) ==
    IF key \in DictKeys(m._dict)
    THEN Ok(MultiMap(m.cls, Without(m._list, key), DictDel(m._dict, key)), DictValue(m._dict, key))
    ELSE Ok(MultiMap(m.cls, Without(m._list, key), m._dict), default)

\* MultiDict.__delitem__
delitem(m, key) ==
    IF key \in DictKeys(m._dict)
    THEN Ok(MultiMap(m.cls, Without(m._list, key), DictDel(m._dict, key)), None)
    ELSE KeyError(MultiMap(m.cls, Without(m._list, key), m._dict))

\* MultiDict.popitem: dict.popitem() takes the item inserted last
popitem(m) ==
    IF m._dict = <<>> THEN KeyError(m)
    ELSE Ok(MultiMap(m.cls, Without(m._list, m._dict[Len(m._dict)].key),
                     SubSeq(m._dict, 1, Len(m._dict) - 1)),
            <<m._dict[Len(m._dict)].key, m._dict[Len(m._dict)].value>>)

\* MultiDict.poplist
poplist(m, key) == Ok(pop(m, key, None).m, ValuesOf(m._list, key))

\* MultiDict.clear
clear(m) == Ok(MultiMap(m.cls, <<>>, <<>>), None)

\* MultiDict.setdefault
setdefault(m, key, default) ==
    IF key \notin DictKeys(m._dict)
    THEN Ok(MultiMap(m.cls, Append(m._list, <<key, default>>), DictSet(m._dict, key, default)),
            default)
    ELSE Ok(m, DictValue(m._dict, key))

\* [(key, value) for value in values]
Entries(key, values) == [i \in 1..Len(values) |-> <<key, values[i]>>]

\* mutant: the entries go where the first occurrence of key was
setlist_InPlace(m, key, values) ==
    IF values = <<>> THEN Ok(pop(m, key, None).m, None)
    ELSE IF key \notin DictKeys(m._dict)
    THEN Ok(MultiMap(m.cls, m._list \o Entries(key, values),
                     DictSet(m._dict, key, values[Len(values)])), None)
    ELSE Ok(MultiMap(m.cls,
                     LET i == CHOOSE i \in 1..Len(m._list) :
                                  m._list[i][1] = key /\ \A j \in 1..(i - 1) : m._list[j][1] # key
                     IN SubSeq(m._list, 1, i - 1) \o Entries(key, values)
                            \o Without(SubSeq(m._list, i + 1, Len(m._list)), key),
                     DictSet(m._dict, key, values[Len(values)])), None)

\* mutant: the existing entries of key stay
setlist_Keep(m, key, values) ==
    IF values = <<>> THEN Ok(pop(m, key, None).m, None)
    ELSE Ok(MultiMap(m.cls, m._list \o Entries(key, values),
                     DictSet(m._dict, key, values[Len(values)])), None)

\* MultiDict.setlist
setlist(m, key, values) ==
    IF values = <<>> THEN Ok(pop(m, key, None).m, None)
    ELSE Ok(MultiMap(m.cls, Without(m._list, key) \o Entries(key, values),
                     DictSet(m._dict, key, values[Len(values)])), None)

\* MultiDict.__setitem__
setitem(m, key, value) == setlist(m, key, <<value>>)

\* mutant: only the index is written
append_IndexOnly(m, key, value) ==
    Ok(MultiMap(m.cls, m._list, DictSet(m._dict, key, value)), None)

\* MultiDict.append
append(m, key, value) ==
    Ok(MultiMap(m.cls, Append(m._list, <<key, value>>), DictSet(m._dict, key, value)), None)

\* mutant: the pairs are appended and nothing is removed
update_Extend(m, pairs) ==
    Ok(MultiMap(m.cls,
                m._list \o multi_items(ImmutableMultiDict("MultiDict", pairs)),
                DictUpdate(m._dict, items(ImmutableMultiDict("MultiDict", pairs)))),
       None)

\* MultiDict.update with one positional argument, a list of pairs:
\* value = MultiDict(pairs); dict.update(value) reads value.keys() and value[k]
update(m, pairs) ==
    Ok(MultiMap(m.cls,
                WithoutAll(m._list, keys(ImmutableMultiDict("MultiDict", pairs)))
                    \o multi_items(ImmutableMultiDict("MultiDict", pairs)),
                DictUpdate(m._dict, items(ImmutableMultiDict("MultiDict", pairs)))),
       None)

\* issubclass(cls, base)
IsSubclass(cls, base) ==
    \/ cls = base
    \/ cls \in {"MultiDict", "QueryParams"} /\ base = "ImmutableMultiDict"
    \/ cls = "MutableHeaders" /\ base = "Headers"

TypeError(m) == Result(m, None, "TypeError")

\* mutant: the lists are compared as they are
eq_Ordered(self, other) ==
    IF ~IsSubclass(other.cls, self.cls) THEN Ok(self, FALSE)
    ELSE Ok(self, self._list = other._list)

\* ImmutableMultiDict.__eq__
eq(self, other) ==
    IF ~IsSubclass(other.cls, self.cls) THEN Ok(self, FALSE)
    ELSE IF ~Sortable(self._list) \/ ~Sortable(other._list) THEN TypeError(self)
    ELSE Ok(self, Sorted(self._list) = Sorted(other._list))

\* an argument that defaults to None: not passed, or passed with a value
Absent == <<>>
Given(value) == <<value>>

AssertionError(m) == Result(m, None, "AssertionError")

\* [(key.lower().encode("latin-1"), value.encode("latin-1")) for key, value in headers.items()]
EncodedItems(headers) ==
    [i \in 1..Len(headers) |-> <<Lower(headers[i].key), headers[i].value>>]

\* a header collection has no _dict
HeaderList(cls, list) == MultiMap(cls, list, <<>>)

\* mutant: raw and scope may be passed together
Headers_RawOverScope(cls, headers, raw, scope) ==
    IF headers # Absent
    THEN IF raw # Absent \/ scope # Absent THEN AssertionError(HeaderList(cls, <<>>))
         ELSE Ok(HeaderList(cls, EncodedItems(headers[1])), None)
    ELSE IF raw # Absent THEN Ok(HeaderList(cls, raw[1]), None)
    ELSE IF scope # Absent THEN Ok(HeaderList(cls, scope[1].headers), None)
    ELSE Ok(HeaderList(cls, <<>>), None)

\* Headers.__init__ (and MutableHeaders', inherited)
Headers(cls, headers, raw, scope) ==
    IF headers # Absent
    THEN IF raw # Absent THEN AssertionError(HeaderList(cls, <<>>))
         ELSE IF scope # Absent THEN AssertionError(HeaderList(cls, <<>>))
         ELSE Ok(HeaderList(cls, EncodedItems(headers[1])), None)
    ELSE IF raw # Absent
    THEN IF scope # Absent THEN AssertionError(HeaderList(cls, <<>>))
         ELSE Ok(HeaderList(cls, raw[1]), None)
    ELSE IF scope # Absent THEN Ok(HeaderList(cls, scope[1].headers), None)
    ELSE Ok(HeaderList(cls, <<>>), None)

HeaderClasses == {"Headers", "MutableHeaders"}

\* the pairs of a header list as bytes objects
BytesPairs(list) ==
    [i \in 1..Len(list) |-> <<Object("bytes", list[i][1]), Object("bytes", list[i][2])>>]

\* Headers.__eq__
headers_eq(self, other) ==
    IF ~IsSubclass(other.cls, "Headers") THEN Ok(self, FALSE)
    ELSE Ok(self, Sorted(BytesPairs(self._list)) = Sorted(BytesPairs(other._list)))

\* type(self).__eq__(self, other)
EqMethod(self, other) ==
    IF self.cls \in HeaderClasses THEN headers_eq(self, other) ELSE eq(self, other)

\* a == b: the method of the right operand is tried first when its class is
\* a proper subclass of the left operand's; the methods never return
\* NotImplemented, so the first one tried decides
Equals(a, b) ==
    IF a.cls # b.cls /\ IsSubclass(b.cls, a.cls)
    THEN Result(a, EqMethod(b, a).ret, EqMethod(b, a).raised)
    ELSE EqMethod(a, b)

\* str.encode("latin-1") and bytes.decode("latin-1"), on the ASCII text of the
\* model: the same characters, as a bytes value or as a str object
Encode(s) == s.repr
Decode(b) == Object("str", b)

\* [item_value.decode("latin-1") for item_key, item_value in self._list if item_key == get_header_key]
DecodedValues(list, key) ==
    LET named == SelectSeq(list, LAMBDA p : p[1] = Lower(key))
    IN [i \in 1..Len(named) |-> Decode(named[i][2])]

\* Headers.__getitem__
Headers_getitem(h, key) ==
    IF HeadersContains(h._list, Encode(key))
    THEN Ok(h, Decode(HeadersGet(h._list, Encode(key), "")))
    ELSE KeyError(h)

\* Headers.get
Headers_get(h, key, default) ==
    IF Headers_getitem(h, key).raised = "KeyError" THEN Ok(h, default)
    ELSE Headers_getitem(h, key)

\* Headers.getlist
Headers_getlist(h, key) == Ok(h, DecodedValues(h._list, Encode(key)))

\* Headers.__contains__
Headers_contains(h, key) == Ok(h, HeadersContains(h._list, Encode(key)))

\* MutableHeaders.__setitem__
MutableHeaders_setitem(h, key, value) ==
    Ok(HeaderList(h.cls, HeadersSet(h._list, Encode(key), Encode(value))), None)

\* MutableHeaders.__delitem__
MutableHeaders_delitem(h, key) == Ok(HeaderList(h.cls, HeadersDel(h._list, Encode(key))), None)

\* mutant: the entry is written whether or not the key is present
MutableHeaders_setdefault_Always(h, key, value) ==
    Ok(HeaderList(h.cls, HeadersSet(h._list, Encode(key), Encode(value))), value)

\* MutableHeaders.setdefault
MutableHeaders_setdefault(h, key, value) ==
    IF HeadersContains(h._list, Encode(key))
    THEN Ok(h, Decode(HeadersGet(h._list, Encode(key), "")))
    ELSE Ok(HeaderList(h.cls, Append(h._list, <<Lower(Encode(key)), Encode(value)>>)), value)

\* MutableHeaders.append
MutableHeaders_append(h, key, value) ==
    Ok(HeaderList(h.cls, Append(h._list, <<Lower(Encode(key)), Encode(value)>>)), None)

\* MutableHeaders.add_vary_header
MutableHeaders_add_vary_header(h, vary) ==
    Ok(HeaderList(h.cls, AddVaryHeader(h._list, Encode(vary))), None)

----------------------------------------------------------------------------
(* Messages, scopes and failures. *)

ResponseStart == "http.response.start"
ResponseBody == "http.response.body"

\* the initial_message of a responder that has seen no start message: {}
EmptyMessage == [k \in {} |-> ""]

\* message.get(key, default)
MsgGet(message, key, default) == IF key \in DOMAIN message THEN message[key] ELSE default

IsStart(message) == "type" \in DOMAIN message /\ message.type = ResponseStart
IsBody(message) == "type" \in DOMAIN message /\ message.type = ResponseBody

Exc(cls, status_code) == [cls |-> cls, status_code |-> status_code]
NoExc == Exc("", 0)

\* type(exc).__mro__
Mro(cls) ==
    CASE cls = "HTTPException" -> <<"HTTPException", "Exception", "BaseException">>
      [] cls = "ValueError" -> <<"ValueError", "Exception", "BaseException">>
      [] cls = "KeyError" -> <<"KeyError", "LookupError", "Exception", "BaseException">>
      [] cls = "RuntimeError" -> <<"RuntimeError", "Exception", "BaseException">>
      [] cls = "OSError" -> <<"OSError", "Exception", "BaseException">>
      [] cls = "CancelledError" -> <<"CancelledError", "BaseException">>
      [] OTHER -> <<cls, "BaseException">>

IsException_Base(exc) == "BaseException" \in Range(Mro(exc.cls))

\* isinstance(exc, Exception): what "except Exception" catches
IsException(exc) == "Exception" \in Range(Mro(exc.cls))

Scope(type, headers) == [type |-> type, headers |-> headers]

\* the send callable the server hands to the application: it takes every
\* message, or it takes the first `accepts` messages and raises on the later ones:
\* OSError when the client has gone away, the cancellation signal when the scope
\* of the call is torn down while the send is pending
Unlimited == [limited |-> FALSE, accepts |-> 0, exc |-> ""]
Accepting(accepts) == [limited |-> TRUE, accepts |-> accepts, exc |-> "OSError"]
TornDown(accepts) == [limited |-> TRUE, accepts |-> accepts, exc |-> "CancelledError"]

TransportSend(st, message) ==
    IF st.transport.limited /\ Len(st.wire) >= st.transport.accepts
    THEN [st EXCEPT !.error = Exc(st.transport.exc, 0), !.refused = TRUE]
    ELSE [st EXCEPT !.wire = Append(@, message)]

----------------------------------------------------------------------------
(* gzip.GzipFile writing into an io.BytesIO, as GZipResponder uses them.   *)
(* The compressed stream is the header, the deflated data and the trailer; *)
(* the compressor holds the chunks written to it until the file is closed. *)

GzipHeader == "<gz>"

\* GZipResponder.__init__
GZipResponder(minimum_size) ==
    [responder |-> TRUE, minimum_size |-> minimum_size, initial_message |-> EmptyMessage,
     started |-> FALSE, gzip_buffer |-> GzipHeader,
     gzip_file |-> [closed |-> FALSE, pending |-> "", size |-> 0]]

\* self.gzip_file.write(body), on an open file
GzipWrite(g, body) ==
    [g EXCEPT !.gzip_file.pending = @ \o body, !.gzip_file.size = @ + Len(body)]

\* self.gzip_file.close()
GzipClose(g) ==
    IF g.gzip_file.closed THEN g
    ELSE [g EXCEPT !.gzip_buffer = @ \o "[" \o g.gzip_file.pending \o "]"
                                     \o ToString(g.gzip_file.size),
                   !.gzip_file.pending = "",
                   !.gzip_file.closed = TRUE]

\* self.gzip_buffer.seek(0); self.gzip_buffer.truncate()
GzipTruncate(g) == [g EXCEPT !.gzip_buffer = ""]

\* mutant: a responder for every HTTP call
GZipMiddlewareCall_AnyEncoding(self, scope) ==
    IF scope.type = "http" THEN GZipResponder(self.minimum_size) ELSE [responder |-> FALSE]

\* GZipMiddleware.__call__: a responder handles the call, or the application is called directly
GZipMiddlewareCall(self, scope) ==
    IF scope.type = "http" /\ Contains(HeadersGet(scope.headers, "Accept-Encoding", ""), "gzip")
    THEN GZipResponder(self.minimum_size)
    ELSE [responder |-> FALSE]

----------------------------------------------------------------------------
(* Responses (the response wrapper) and handler calls. *)

Response(content, status_code, media_type) ==
    [body |-> content, status_code |-> status_code, media_type |-> media_type]

NoResponse == Response("", 0, "")

\* the headers a response wrapper sends
RawHeaders(response) ==
    << <<"content-length", ToString(Len(response.body))>>,
       <<"content-type", response.media_type>> >>

\* the two messages of a buffered response
ResponseMessages(response) ==
    << [type |-> ResponseStart, status |-> response.status_code,
        headers |-> RawHeaders(response)],
       [type |-> ResponseBody, body |-> response.body, more_body |-> FALSE] >>

\* mutant: a functools.partial is not unwrapped
is_async_callable_NoUnwrap(obj) ==
    IF obj.partial THEN FALSE ELSE obj.coroutine \/ obj.call_coroutine

\* is_async_callable
RECURSIVE is_async_callable(_)
is_async_callable(obj) ==
    IF obj.partial THEN is_async_callable(obj.func)
    ELSE obj.coroutine \/ obj.call_coroutine

\* the function a handler object ends up running
RECURSIVE Underlying(_)
Underlying(obj) == IF obj.partial THEN Underlying(obj.func) ELSE obj

\* handler(request, exc): the response returned, or the failure raised
HandlerResult(handler, request, exc) ==
    LET f == Underlying(handler)
    IN IF f.raises THEN [raised |-> Exc("RuntimeError", 0), response |-> NoResponse]
       ELSE [raised |-> NoExc,
             response |-> Response(f.name, f.status, "text/plain")]

\* ServerErrorMiddleware.generate_html / generate_plain_text: the rendering of a failure
generate_html(exc) == "<html>" \o exc.cls \o "</html>"
generate_plain_text(exc) == "Traceback: " \o exc.cls

\* ServerErrorMiddleware.debug_response
debug_response(self, request, exc) ==
    LET accept == HeadersGet(request.headers, "accept", "")
    IN IF Contains(accept, "text/html")
       THEN Response(generate_html(exc), 500, "text/html")
       ELSE Response(generate_plain_text(exc), 500, "text/plain")

\* mutant: the reply names the middleware object
error_response_Repr(self, request, exc) ==
    Response("Internal Server Error at " \o ToString(self.id), 500, "text/plain")

\* mutant: the generic reply carries status 200
error_response_Ok(self, request, exc) ==
    Response("Internal Server Error", 200, "text/plain")

\* ServerErrorMiddleware.error_response
error_response(self, request, exc) ==
    Response("Internal Server Error", 500, "text/plain")

----------------------------------------------------------------------------
(* One call of the application: the request record.                        *)
(*   transport the send callable the server called the application with    *)
(*   stack    the chain the call runs through, outermost first             *)
(*   layers   the state each layer of the chain holds for this call        *)
(*   emitted  the messages the innermost application has sent              *)
(*   wire     the messages the transport has received                      *)
(*   error    a failure raised by the send call in progress                *)
(*   refused  the transport has raised on a send of this call              *)
(*   failure  the failure the innermost application ended with             *)
(*   ended    how it ended: "return", "raise", or "send" (a send raised)   *)
(*   sem, em  what the error boundary and exception translation did        *)

NoOutcome == [kind |-> "none", exc |-> NoExc]

\*   arrived  the failure the wrapped application raised into the boundary
\*   before   the transport's messages at that moment
\*   caught   the failure the except block handled
SemIdle == [arrived |-> NoExc, before |-> <<>>, caught |-> NoExc, started |-> FALSE,
            handler_calls |-> 0, via |-> "none", response |-> NoResponse,
            replied |-> FALSE]

EmIdle == [caught |-> NoExc, handler_calls |-> 0, response |-> NoResponse]

\* message[key] = value
SetKey(message, key, value) ==
    [k \in DOMAIN message \cup {key} |-> IF k = key THEN value ELSE message[k]]

Raise(st, exc) == [st EXCEPT !.error = exc]

SetLayer(st, j, g) == [st EXCEPT !.layers[j] = g]

\* mutant: every scope type is handled like http
ServerErrorMiddlewareCall_AnyScope(self, scope) ==
    [guarded |-> TRUE, response_started |-> FALSE]

\* ServerErrorMiddleware.__call__ up to the call of the wrapped application:
\* only an http scope gets the wrapped send and the try block
ServerErrorMiddlewareCall(self, scope) ==
    IF scope.type # "http" THEN [guarded |-> FALSE, response_started |-> FALSE]
    ELSE [guarded |-> TRUE, response_started |-> FALSE]

\* what a layer sets up when it is called
EnterLayer(self, scope) ==
    CASE self.cls = "ServerErrorMiddleware" -> ServerErrorMiddlewareCall(self, scope)
      [] self.cls = "GZipMiddleware" -> GZipMiddlewareCall(self, scope)
      [] OTHER -> [cls |-> self.cls]

\* What a layer's send wrapper does with one message: the layer's state after
\* it, the messages it awaits the next send with, in order, and the failure
\* it raises before sending.  Every assignment of a wrapper precedes its sends.
Forward(layer, out) == [layer |-> layer, out |-> out, error |-> NoExc]

Fail(layer, exc) == [layer |-> layer, out |-> <<>>, error |-> exc]

\* mutant: the start message is forwarded without being noted
ServerErrorSend_NoFlag(layer, message) ==
    IF "type" \notin DOMAIN message THEN Fail(layer, Exc("KeyError", 0))
    ELSE Forward(layer, <<message>>)

\* ServerErrorMiddleware.__call__._send
ServerErrorSend(layer, message) ==
    IF "type" \notin DOMAIN message THEN Fail(layer, Exc("KeyError", 0))
    ELSE IF message.type = ResponseStart
         THEN Forward([layer EXCEPT !.response_started = TRUE], <<message>>)
         ELSE Forward(layer, <<message>>)

\* mutant: Content-Length is left as the application set it
GzipHeadersFull_StaleLength(headers, body) ==
    AddVaryHeader(HeadersSet(headers, "Content-Encoding", "gzip"), "Accept-Encoding")

\* the header rewrite of a compressed single-shot response
GzipHeadersFull(headers, body) ==
    AddVaryHeader(
        HeadersSet(HeadersSet(headers, "Content-Encoding", "gzip"),
                   "Content-Length", ToString(Len(body))),
        "Accept-Encoding")

\* mutant: Content-Length is kept
GzipHeadersStreaming_KeepLength(headers) ==
    AddVaryHeader(HeadersSet(headers, "Content-Encoding", "gzip"), "Accept-Encoding")

\* the header rewrite of a compressed streaming response
GzipHeadersStreaming(headers) ==
    HeadersDel(AddVaryHeader(HeadersSet(headers, "Content-Encoding", "gzip"),
                             "Accept-Encoding"),
               "Content-Length")

\* await self.send(self.initial_message); await self.send(message)
SendStartAnd(self, message) == Forward(self, <<self.initial_message, message>>)

\* a single-shot response, the body written and the file closed
GzipSingleShot(self, message) ==
    IF "headers" \notin DOMAIN self.initial_message THEN Fail(self, Exc("KeyError", 0))
    ELSE SendStartAnd([self EXCEPT !.initial_message.headers =
                                       GzipHeadersFull(@, self.gzip_buffer)],
                      SetKey(message, "body", self.gzip_buffer))

\* message["body"] = self.gzip_buffer.getvalue(), and the buffer emptied
GzipFlush(self, message) == SetKey(message, "body", self.gzip_buffer)

\* the first chunk of a streaming response, the headers edited and the chunk written
GzipStreamStart(self, message) ==
    SendStartAnd(GzipTruncate(self), GzipFlush(self, message))

\* mutant: a final body is compressed whatever its size
GzipFirstBody_AlwaysCompress(self, message) ==
    IF ~MsgGet(message, "more_body", FALSE)
    THEN GzipSingleShot(GzipClose(GzipWrite(self, MsgGet(message, "body", ""))), message)
    ELSE IF "headers" \notin DOMAIN self.initial_message
    THEN Fail(self, Exc("KeyError", 0))
    ELSE GzipStreamStart(
             GzipWrite([self EXCEPT !.initial_message.headers = GzipHeadersStreaming(@)],
                       MsgGet(message, "body", "")),
             message)

\* the first body message seen by a responder, self.started set
GzipFirstBody(self, message) ==
    IF Len(MsgGet(message, "body", "")) < self.minimum_size
       /\ ~MsgGet(message, "more_body", FALSE)
    THEN SendStartAnd(self, message)
    ELSE IF ~MsgGet(message, "more_body", FALSE)
    THEN GzipSingleShot(GzipClose(GzipWrite(self, MsgGet(message, "body", ""))), message)
    ELSE IF "headers" \notin DOMAIN self.initial_message
    THEN Fail(self, Exc("KeyError", 0))
    ELSE GzipStreamStart(
             GzipWrite([self EXCEPT !.initial_message.headers = GzipHeadersStreaming(@)],
                       MsgGet(message, "body", "")),
             message)

\* a later chunk of a streaming response, written (and the file closed after the last)
GzipStreamNext(self, message) ==
    Forward(GzipTruncate(self), <<GzipFlush(self, message)>>)

\* a later body message of a streaming response
GzipNextBody(self, message) ==
    IF self.gzip_file.closed THEN Fail(self, Exc("ValueError", 0))
    ELSE IF ~MsgGet(message, "more_body", FALSE)
    THEN GzipStreamNext(GzipClose(GzipWrite(self, MsgGet(message, "body", ""))), message)
    ELSE GzipStreamNext(GzipWrite(self, MsgGet(message, "body", "")), message)

\* mutant: a message of another type, and a late start message, are passed on
send_with_gzip_PassOthers(self, message) ==
    IF "type" \notin DOMAIN message THEN Fail(self, Exc("KeyError", 0))
    ELSE IF message.type = ResponseStart /\ ~self.started
         THEN Forward([self EXCEPT !.initial_message = message], <<>>)
    ELSE IF message.type = ResponseBody /\ ~self.started
         THEN GzipFirstBody([self EXCEPT !.started = TRUE], message)
    ELSE IF message.type = ResponseBody THEN GzipNextBody(self, message)
    ELSE Forward(self, <<message>>)

\* mutant: the start message is forwarded as it arrives
send_with_gzip_Eager(self, message) ==
    IF "type" \notin DOMAIN message THEN Fail(self, Exc("KeyError", 0))
    ELSE IF message.type = ResponseStart
         THEN Forward([self EXCEPT !.initial_message = message], <<message>>)
    ELSE IF message.type = ResponseBody /\ ~self.started
         THEN Forward([self EXCEPT !.started = TRUE], <<message>>)
    ELSE IF message.type = ResponseBody THEN GzipNextBody(self, message)
    ELSE Forward(self, <<>>)

\* mutant: the body is sent ahead of the withheld start message
send_with_gzip_BodyFirst(self, message) ==
    IF "type" \notin DOMAIN message THEN Fail(self, Exc("KeyError", 0))
    ELSE IF message.type = ResponseStart
         THEN Forward([self EXCEPT !.initial_message = message], <<>>)
    ELSE IF message.type = ResponseBody /\ ~self.started
         THEN Forward([self EXCEPT !.started = TRUE], <<message, self.initial_message>>)
    ELSE IF message.type = ResponseBody THEN GzipNextBody(self, message)
    ELSE Forward(self, <<>>)

\* GZipResponder.send_with_gzip
send_with_gzip(self, message) ==
    IF "type" \notin DOMAIN message THEN Fail(self, Exc("KeyError", 0))
    ELSE IF message.type = ResponseStart
         THEN Forward([self EXCEPT !.initial_message = message], <<>>)
    ELSE IF message.type = ResponseBody /\ ~self.started
         THEN GzipFirstBody([self EXCEPT !.started = TRUE], message)
    ELSE IF message.type = ResponseBody THEN GzipNextBody(self, message)
    ELSE Forward(self, <<>>)

\* the send callable a layer passes to the application it wraps
LayerSend(self, layer, message) ==
    CASE self.cls = "ServerErrorMiddleware" /\ layer.guarded -> ServerErrorSend(layer, message)
      [] self.cls = "GZipMiddleware" /\ layer.responder -> send_with_gzip(layer, message)
      [] OTHER -> Forward(layer, <<message>>)

\* await send(message) for each of the messages in turn, with the send
\* callable layer i was called with (the transport for the outermost layer,
\* else what the layer around it passed down); a send that raises ends it
RECURSIVE SendAll(_, _, _)

\* the wrapper of layer j has run on a message: its sends follow, then the
\* rest of the caller's messages
RECURSIVE SendOn(_, _, _, _)
SendOn(st, j, r, rest) ==
    IF r.error # NoExc THEN Raise(SetLayer(st, j, r.layer), r.error)
    ELSE SendAll(SendAll(SetLayer(st, j, r.layer), j, r.out), j + 1, rest)

SendAll(st, i, messages) ==
    IF messages = <<>> \/ st.error # NoExc THEN st
    ELSE IF i = 1 THEN SendAll(TransportSend(st, Head(messages)), i, Tail(messages))
    ELSE SendOn(st, i - 1, LayerSend(st.stack[i - 1], st.layers[i - 1], Head(messages)),
                Tail(messages))

\* await send(message) by layer i
SendTo(st, i, message) == SendAll(st, i, <<message>>)

\* await response(scope, receive, send) by layer i
SendResponse(st, i, response) == SendAll(st, i, ResponseMessages(response))

\* Request(scope)
Request(scope) == [headers |-> scope.headers]

\* the reply the except block computes for a failure, or what the handler raised
ServerErrorReply(self, request, exc) ==
    IF self.debug
    THEN [raised |-> NoExc, response |-> debug_response(self, request, exc),
          handler_calls |-> 0, via |-> "none"]
    ELSE IF self.handler = None
    THEN [raised |-> NoExc, response |-> error_response(self, request, exc),
          handler_calls |-> 0, via |-> "none"]
    ELSE [raised |-> HandlerResult(self.handler, request, exc).raised,
          response |-> HandlerResult(self.handler, request, exc).response,
          handler_calls |-> 1,
          via |-> IF is_async_callable(self.handler) THEN "direct" ELSE "threadpool"]

\* a statement raising exc after an await: reached when the await did not raise
RaiseAfter(st, exc) == IF st.error # NoExc THEN st ELSE Raise(st, exc)

\* if not response_started: await response(scope, receive, send); then raise exc
ServerErrorFinish(st, i, exc, reply) ==
    IF reply.raised # NoExc
    THEN Raise([st EXCEPT !.sem.handler_calls = @ + reply.handler_calls,
                          !.sem.via = reply.via],
               reply.raised)
    ELSE IF st.layers[i].response_started
    THEN Raise([st EXCEPT !.sem.handler_calls = @ + reply.handler_calls,
                          !.sem.via = reply.via,
                          !.sem.response = reply.response,
                          !.sem.replied = FALSE],
               exc)
    ELSE RaiseAfter(SendResponse([st EXCEPT !.sem.handler_calls = @ + reply.handler_calls,
                                            !.sem.via = reply.via,
                                            !.sem.response = reply.response,
                                            !.sem.replied = TRUE],
                                 i, reply.response),
                    exc)

\* mutant: a failure that was answered is not raised again
ServerErrorExcept_Swallow(st, i, exc) ==
    LET reply == ServerErrorReply(st.stack[i], Request(st.scope), exc)
        started == st.layers[i].response_started
        s1 == [st EXCEPT !.sem.caught = exc, !.sem.started = started,
                         !.sem.handler_calls = @ + reply.handler_calls,
                         !.sem.via = reply.via]
    IN IF reply.raised # NoExc THEN Raise(s1, reply.raised)
       ELSE LET s2 == [s1 EXCEPT !.sem.response = reply.response, !.sem.replied = ~started]
            IN IF started THEN Raise(s2, exc) ELSE SendResponse(s2, i, reply.response)

\* ServerErrorMiddleware.__call__, the except block: the request record after
\* it, with the failure that leaves the block in error
ServerErrorExcept(st, i, exc) ==
    ServerErrorFinish([st EXCEPT !.sem.caught = exc,
                                 !.sem.started = st.layers[i].response_started],
                      i, exc, ServerErrorReply(st.stack[i], Request(st.scope), exc))

\* exception translation: the handler registered for the failure, or None
RECURSIVE LookupClass(_, _)
LookupClass(handlers, mro) ==
    IF mro = <<>> THEN None
    ELSE IF ClassKey(Head(mro)) \in DictKeys(handlers)
         THEN handlers[DictGet(handlers, ClassKey(Head(mro)))].value
         ELSE LookupClass(handlers, Tail(mro))

LookupHandler(handlers, exc) ==
    IF LookupClass(handlers, Mro(exc.cls)) # None THEN LookupClass(handlers, Mro(exc.cls))
    ELSE IF exc.status_code # 0 /\ StatusKey(exc.status_code) \in DictKeys(handlers)
         THEN handlers[DictGet(handlers, StatusKey(exc.status_code))].value
         ELSE None

\* the handler has run: its failure propagates, or its response is sent
TranslateReply(st, i, result) ==
    IF result.raised # NoExc THEN Raise(st, result.raised)
    ELSE SendResponse([st EXCEPT !.em.response = result.response], i, result.response)

TranslateWith(st, i, exc, handler) ==
    IF handler = None THEN Raise(st, exc)
    ELSE TranslateReply([st EXCEPT !.em.caught = exc, !.em.handler_calls = @ + 1], i,
                        HandlerResult(handler, Request(st.scope), exc))

\* exception translation around the application: a matched handler's
\* result becomes the response, an unmatched failure propagates
ExceptionTranslate(st, i, exc) ==
    TranslateWith(st, i, exc, LookupHandler(st.stack[i].handlers, exc))

\* the call returns to the caller of the application
Return(st) == [st EXCEPT !.pc = "done", !.outcome = [kind |-> "returned", exc |-> NoExc]]

\* what layer i does with a failure of the application it wraps
LayerExcept(st, i, exc) ==
    CASE st.stack[i].cls = "ServerErrorMiddleware" ->
             IF st.layers[i].guarded /\ IsException(exc)
             THEN ServerErrorExcept([st EXCEPT !.sem.arrived = exc, !.sem.before = st.wire],
                                    i, exc)
             ELSE Raise([st EXCEPT !.sem.arrived = exc, !.sem.before = st.wire], exc)
      [] st.stack[i].cls = "ExceptionMiddleware" -> ExceptionTranslate(st, i, exc)
      [] OTHER -> Raise(st, exc)

\* exc leaves the application wrapped by layer i and travels outward
RECURSIVE Unwind(_, _, _)

\* layer i has dealt with a failure: its __call__ returns, or raises in turn
RECURSIVE Leave(_, _)
Leave(st, i) ==
    IF st.error = NoExc THEN Return(st)
    ELSE Unwind([st EXCEPT !.error = NoExc], i - 1, st.error)

Unwind(st, i, exc) ==
    IF i = 0 THEN [st EXCEPT !.pc = "done", !.outcome = [kind |-> "raised", exc |-> exc]]
    ELSE Leave(LayerExcept(st, i, exc), i)

IdleRequest ==
    [pc |-> "idle", scope |-> Scope("", <<>>), transport |-> Unlimited,
     stack |-> <<>>, layers |-> <<>>,
     emitted |-> <<>>, wire |-> <<>>, error |-> NoExc, refused |-> FALSE,
     failure |-> NoExc, ended |-> "", outcome |-> NoOutcome, sem |-> SemIdle, em |-> EmIdle]

Requests == {1, 2}

\* the assignments of a build: the fields as the method leaves them and the new chain
Install(self0, old) ==
    LET r == build_middleware_stack(self0, nextId)
    IN /\ debug' = r.self._debug
       /\ exception_handlers' = r.self.exception_handlers
       /\ user_middleware' = r.self.user_middleware
       /\ middleware_stack' = r.app
       /\ nextId' = r.nextId
       /\ built' = [before |-> Inputs(self0), after |-> Inputs(r.self), previous |-> old]
       /\ UNCHANGED <<cells, md>>

\* no multi-map, no header collection
NoMap == [m |-> MultiMap("", <<>>, <<>>)]

NoData == md = NoMap

\* Starlette.__init__, its arguments drawn from the given sets
Construct(debugs, middlewares, handler_maps) ==
    \E d \in debugs, m \in middlewares, h \in handler_maps :
        LET self0 == [_debug |-> d, exception_handlers |-> h, user_middleware |-> m,
                      router |-> Router]
            r == build_middleware_stack(self0, RouterId + 1)
        IN /\ debug = r.self._debug
           /\ exception_handlers = r.self.exception_handlers
           /\ user_middleware = r.self.user_middleware
           /\ middleware_stack = r.app
           /\ nextId = r.nextId
           /\ built = [before |-> Inputs(self0), after |-> Inputs(r.self), previous |-> <<>>]
           /\ mutations = 0
           /\ req = [r0 \in Requests |-> IdleRequest]
           /\ cells = <<>>

\* the debug setter
SetDebug(value) ==
    /\ mutations < MaxMutations
    /\ mutations' = mutations + 1
    /\ Install([Self EXCEPT !._debug = value], middleware_stack)
    /\ UNCHANGED req

\* mutant: the descriptor is stored and the chain left as it was
AddMiddleware_NoBuild(d) ==
    /\ mutations < MaxMutations
    /\ mutations' = mutations + 1
    /\ user_middleware' = <<d>> \o user_middleware
    /\ UNCHANGED <<debug, exception_handlers, middleware_stack, nextId, built, cells, md, req>>

\* Starlette.add_middleware
AddMiddleware(d) ==
    /\ mutations < MaxMutations
    /\ mutations' = mutations + 1
    /\ Install([Self EXCEPT !.user_middleware = <<d>> \o user_middleware], middleware_stack)
    /\ UNCHANGED req

\* Starlette.add_exception_handler
AddExceptionHandler(key, handler) ==
    /\ mutations < MaxMutations
    /\ mutations' = mutations + 1
    /\ Install([Self EXCEPT !.exception_handlers = DictSet(exception_handlers, key, handler)],
               middleware_stack)
    /\ UNCHANGED req

----------------------------------------------------------------------------
(* Requests. *)

\* the connection scopes of the model
ScopeChoices ==
    { Scope("http", <<>>),
      Scope("http", << <<"accept-encoding", "gzip, deflate">> >>),
      Scope("http", << <<"accept", "text/html">>, <<"accept-encoding", "gzip">> >>),
      Scope("websocket", << <<"accept-encoding", "gzip">> >>) }

\* the send callables of the model
TransportChoices == {Unlimited, Accepting(0), Accepting(1), TornDown(0), TornDown(1)}

StartMessage ==
    [type |-> ResponseStart, status |-> 200,
     headers |-> << <<"content-length", "2">>, <<"vary", "Cookie">> >>]

BodyMessage(body, more_body) == [type |-> ResponseBody, body |-> body, more_body |-> more_body]

\* what the innermost application may send
AppMessages ==
    {StartMessage, BodyMessage("", FALSE), BodyMessage("ab", FALSE), BodyMessage("ab", TRUE)}

\* what the innermost application may raise
AppFailures == {Exc("HTTPException", 404), Exc("ValueError", 0), Exc("CancelledError", 0)}

\* Starlette.__call__: the call enters the installed chain, layer by layer,
\* down to the innermost application
Call(r, scope, send) ==
    /\ req[r].pc = "idle"
    /\ req' = [req EXCEPT ![r] =
                   [IdleRequest EXCEPT
                        !.pc = "app", !.scope = scope, !.transport = send,
                        !.stack = middleware_stack,
                        !.layers = [i \in 1..Len(middleware_stack) |->
                                        EnterLayer(middleware_stack[i], scope)]]]
    /\ UNCHANGED appvars

\* the innermost application awaits send(message); a failure of the send
\* leaves the application as its own failure.  The message carries its
\* position in the application's output under the key "n".
AfterSend(st) ==
    IF st.error = NoExc THEN st
    ELSE Unwind([st EXCEPT !.error = NoExc, !.failure = st.error, !.ended = "send"],
                Len(st.stack) - 1, st.error)

Emit(st, m) == SendTo([st EXCEPT !.emitted = Append(@, m)], Len(st.stack), m)

Sent(st, message) == AfterSend(Emit(st, SetKey(message, "n", Len(st.emitted) + 1)))

Raised(st, exc) ==
    Unwind([st EXCEPT !.failure = exc, !.ended = "raise"], Len(st.stack) - 1, exc)

Returned(st) == Return([st EXCEPT !.ended = "return"])

AppSend(r, message) ==
    /\ req[r].pc = "app"
    /\ Len(req[r].emitted) < MaxMsgs
    /\ req' = [req EXCEPT ![r] = Sent(req[r], message)]
    /\ UNCHANGED appvars

\* the innermost application raises
AppRaise(r, exc) ==
    /\ req[r].pc = "app"
    /\ req' = [req EXCEPT ![r] = Raised(req[r], exc)]
    /\ UNCHANGED appvars

\* the innermost application returns
AppReturn(r) ==
    /\ req[r].pc = "app"
    /\ req' = [req EXCEPT ![r] = Returned(req[r])]
    /\ UNCHANGED appvars

\* The scripted request sent a second time: request 2 has the scope and the
\* send callable of request 1 and its application does what the application of request 1 did.
CallAgain ==
    /\ req[1].pc = "done"
    /\ Call(2, req[1].scope, req[1].transport)

\* the chain is built again between the two runs, from the same inputs
\* (the debug flag is assigned its current value)
Rebuild ==
    /\ req[1].pc = "done"
    /\ req[2].pc = "idle"
    /\ mutations = 0
    /\ SetDebug(debug)

Unkeyed(message) == [k \in DOMAIN message \ {"n"} |-> message[k]]

\* a call served on its own: the application sends the given messages, then
\* ends as given
RECURSIVE SendEach(_, _)
SendEach(st, messages) ==
    IF messages = <<>> \/ st.pc # "app" THEN st
    ELSE SendEach(Sent(st, Unkeyed(Head(messages))), Tail(messages))

End(st, ended, failure) ==
    IF st.pc # "app" THEN st
    ELSE IF ended = "raise" THEN Raised(st, failure)
    ELSE IF ended = "return" THEN Returned(st)
    ELSE st

Alone(stack, scope, send, messages, ended, failure) ==
    End(SendEach([IdleRequest EXCEPT
                      !.pc = "app", !.scope = scope, !.transport = send,
                      !.stack = stack,
                      !.layers = [i \in 1..Len(stack) |-> EnterLayer(stack[i], scope)]],
                 messages),
        ended, failure)

ReplaySend ==
    /\ req[2].pc = "app"
    /\ Len(req[2].emitted) < Len(req[1].emitted)
    /\ req' = [req EXCEPT ![2] =
                   Sent(req[2], Unkeyed(req[1].emitted[Len(req[2].emitted) + 1]))]
    /\ UNCHANGED appvars

ReplayRaise ==
    /\ req[2].pc = "app"
    /\ Len(req[2].emitted) = Len(req[1].emitted)
    /\ req[1].ended = "raise"
    /\ req' = [req EXCEPT ![2] = Raised(req[2], req[1].failure)]
    /\ UNCHANGED appvars

ReplayReturn ==
    /\ req[2].pc = "app"
    /\ Len(req[2].emitted) = Len(req[1].emitted)
    /\ req[1].ended = "return"
    /\ req' = [req EXCEPT ![2] = Returned(req[2])]
    /\ UNCHANGED appvars

----------------------------------------------------------------------------
(* Two calls in progress at once through the same chain.  The instances of  *)
(* the chain are shared; what a layer creates inside __call__ (the frame    *)
(* holding response_started and the wrapped _send, the GZipResponder) is an *)
(* object of its own per call, kept here in `cells` under its identity.     *)

\* mutant: the per-call object is kept on the instance
NewCell_OnInstance(self, call) == <<self.id, 0>>

\* the identity of the object the instance self creates in the given call
NewCell(self, call) == <<self.id, call>>

CellsOf(stack, call) == {NewCell(stack[j], call) : j \in 1..Len(stack)}

\* the per-call objects of a call, layer by layer
Load(st, call) ==
    [st EXCEPT !.layers = [j \in 1..Len(st.stack) |-> cells[NewCell(st.stack[j], call)]]]

LayerOf(stack, call, id) == CHOOSE j \in 1..Len(stack) : NewCell(stack[j], call) = id

Store(stack, call, layers) ==
    [id \in DOMAIN cells \cup CellsOf(stack, call) |->
        IF id \in CellsOf(stack, call) THEN layers[LayerOf(stack, call, id)] ELSE cells[id]]

\* the step of a call leaves its request record and its per-call objects
Step(r, st) ==
    /\ req' = [req EXCEPT ![r] = [st EXCEPT !.layers = <<>>]]
    /\ cells' = Store(st.stack, r, st.layers)
    /\ UNCHANGED <<selfvars, md>>

Entered(scope, send) ==
    [IdleRequest EXCEPT
         !.pc = "app", !.scope = scope, !.transport = send,
         !.stack = middleware_stack,
         !.layers = [i \in 1..Len(middleware_stack) |->
                         EnterLayer(middleware_stack[i], scope)]]

PairCall(r, scope, send) ==
    /\ req[r].pc = "idle"
    /\ Step(r, Entered(scope, send))

PairSend(r, message) ==
    /\ req[r].pc = "app"
    /\ Len(req[r].emitted) < MaxMsgs
    /\ Step(r, Sent(Load(req[r], r), message))

PairRaise(r, exc) ==
    /\ req[r].pc = "app"
    /\ Step(r, Raised(Load(req[r], r), exc))

PairReturn(r) ==
    /\ req[r].pc = "app"
    /\ Step(r, Returned(Load(req[r], r)))

PairScopes ==
    { Scope("http", <<>>),
      Scope("http", << <<"accept-encoding", "gzip, deflate">> >>) }

PairTransports == {Unlimited, Accepting(1)}

PairMessages == {StartMessage, BodyMessage("ab", FALSE), BodyMessage("ab", TRUE)}

PairFailures == {Exc("ValueError", 0)}

InitPair ==
    /\ Construct({FALSE}, {<<GZip(1)>>}, {<<Item(StatusKey(500), callable_handler)>>})
    /\ NoData

NextPair ==
    \/ \E r \in Requests, s \in PairScopes, t \in PairTransports : PairCall(r, s, t)
    \/ \E r \in Requests, m \in PairMessages : PairSend(r, m)
    \/ \E r \in Requests, e \in PairFailures : PairRaise(r, e)
    \/ \E r \in Requests : PairReturn(r)

SpecPair == InitPair /\ [][NextPair]_vars

----------------------------------------------------------------------------
(* An ordered multi-map under a sequence of method calls.  md holds the map *)
(* (m), the last call (op: its name and arguments), the map before it       *)
(* (before), what the call returned or raised (ret, raised), until the      *)
(* caller has taken the result and the next call can be made, and, while the *)
(* map has only been appended to since its construction (appended), the     *)
(* number of constructor entries plus append calls (entries).               *)

\* entries of a map a method is called on; entries of an update or == argument
MaxEntries == 3
MaxUpdate == 2

StrKeys == {Object("str", "1"), Object("str", "a")}
MapKeys == {Object("int", "1")} \cup StrKeys
MapValues == {Object("str", "x"), Object("str", "y")}

\* the lists of at most n of the given pairs
PairLists(pairs, n) == UNION {[1..k -> pairs] : k \in 0..n}

MapClasses == {"ImmutableMultiDict", "MultiDict", "QueryParams"}

\* the constructor arguments of the model: the mutable map is built with str keys
MapArguments(cls) ==
    IF cls = "MultiDict" THEN PairLists(StrKeys \X MapValues, MaxEntries)
    ELSE PairLists(MapKeys \X MapValues, MaxEntries)

\* the arguments of update
UpdateArguments ==
    PairLists({<<Object("str", "a"), Object("str", "x")>>,
               <<Object("str", "a"), Object("str", "y")>>,
               <<Object("str", "1"), Object("str", "x")>>}, MaxUpdate)

\* cls(value), cls(raw=value) for a header collection
NewMap(cls, value) ==
    IF cls = "QueryParams" THEN QueryParams(value)
    ELSE IF cls \in HeaderClasses THEN Headers(cls, Absent, Given(value), Absent).m
    ELSE ImmutableMultiDict(cls, value)

Op(name, key, value) == [name |-> name, key |-> key, value |-> value]

Constructed(cls, value) ==
    [m |-> NewMap(cls, value), op |-> Op("__init__", None, value), before |-> NewMap(cls, value),
     ret |-> None, raised |-> "", entries |-> Len(value), appended |-> TRUE]

\* the sources of the header collections of the model
HeadersArguments ==
    {Absent, Given(<<>>), Given(<<Item("Accept", "1")>>),
     Given(<<Item("Vary", "2"), Item("Accept", "1")>>)}

RawPairs == {<<"accept", "1">>, <<"accept", "2">>, <<"vary", "1">>}

RawArguments == {Absent} \cup {Given(raw) : raw \in PairLists(RawPairs, MaxUpdate)}

ScopeArguments ==
    {Absent, Given(Scope("http", <<>>)),
     Given(Scope("http", << <<"vary", "2">>, <<"accept", "1">> >>))}

\* cls(headers, raw, scope) has been called
HeadersConstructed(cls, headers, raw, scope) ==
    [m |-> Headers(cls, headers, raw, scope).m,
     op |-> Op("__init__", None, [headers |-> headers, raw |-> raw, scope |-> scope]),
     before |-> Headers(cls, headers, raw, scope).m,
     ret |-> None, raised |-> Headers(cls, headers, raw, scope).raised,
     entries |-> 0, appended |-> FALSE]

\* the caller has taken the result of the last call
MapReturned ==
    /\ md.op.name # ""
    /\ md.raised # "AssertionError"
    /\ md' = [md EXCEPT !.op = Op("", None, None), !.before = md.m, !.ret = None, !.raised = ""]
    /\ UNCHANGED <<selfvars, req, cells>>

\* a method has been called: a read, an append, or another mutation
Called(kind, op, result) ==
    /\ md.op.name \in {"", "__init__"}
    /\ md.raised = ""
    /\ Len(md.m._list) <= MaxEntries
    /\ md' = [m |-> result.m, op |-> op, before |-> md.m, ret |-> result.ret,
              raised |-> result.raised,
              appended |-> md.appended /\ kind # "write",
              entries |-> IF ~md.appended \/ kind = "write" THEN 0
                          ELSE IF kind = "append" THEN md.entries + 1
                          ELSE md.entries]
    /\ UNCHANGED <<selfvars, req, cells>>

Mutable == md.m.cls = "MultiDict"

IsMap == md.m.cls \in MapClasses

MapGetItem(key) == IsMap /\ Called("read", Op("__getitem__", key, None), getitem(md.m, key))

MapGet(key, default) ==
    IsMap /\ Called("read", Op("get", key, default), get(md.m, key, default))

MapSetItem(key, value) ==
    Mutable /\ Called("write", Op("__setitem__", key, value), setitem(md.m, key, value))

MapSetList(key, values) ==
    Mutable /\ Called("write", Op("setlist", key, values), setlist(md.m, key, values))

MapAppend(key, value) ==
    Mutable /\ Called("append", Op("append", key, value), append(md.m, key, value))

MapSetDefault(key, default) ==
    Mutable /\ Called("write", Op("setdefault", key, default), setdefault(md.m, key, default))

MapDelItem(key) == Mutable /\ Called("write", Op("__delitem__", key, None), delitem(md.m, key))

MapPop(key, default) ==
    Mutable /\ Called("write", Op("pop", key, default), pop(md.m, key, default))

MapPopItem == Mutable /\ Called("write", Op("popitem", None, None), popitem(md.m))

MapPopList(key) == Mutable /\ Called("write", Op("poplist", key, None), poplist(md.m, key))

MapClear == Mutable /\ Called("write", Op("clear", None, None), clear(md.m))

MapUpdate(pairs) == Mutable /\ Called("write", Op("update", None, pairs), update(md.m, pairs))

\* the other operands of ==: collections of the same kind built from the
\* pairs of md.m and one more, and one collection of the other kind
EqArguments ==
    IF IsMap
    THEN {NewMap(cls, value) :
              cls \in MapClasses,
              value \in PairLists(Range(md.m._list)
                                      \cup {<<Object("str", "a"), Object("str", "x")>>},
                                  MaxUpdate)}
             \cup {NewMap("Headers", <<>>)}
    ELSE {NewMap(cls, value) :
              cls \in HeaderClasses,
              value \in PairLists(Range(md.m._list) \cup {<<"vary", "1">>}, MaxUpdate)}
             \cup {NewMap("MultiDict", <<>>)}

\* md.m == other, for a collection as constructed
MapEquals(other) ==
    /\ md.op.name = "__init__"
    /\ Len(md.m._list) <= MaxUpdate
    /\ Called("read", Op("__eq__", None, other), Equals(md.m, other))

\* no collection has been constructed yet
Unbuilt ==
    [m |-> MultiMap("", <<>>, <<>>), op |-> Op("", None, None),
     before |-> MultiMap("", <<>>, <<>>), ret |-> None, raised |-> "",
     entries |-> 0, appended |-> FALSE]

\* cls(value), for a multi-map class
MapNew(cls, value) ==
    /\ md = Unbuilt
    /\ md' = Constructed(cls, value)
    /\ UNCHANGED <<selfvars, req, cells>>

\* cls(headers, raw, scope), for a header class
HeadersNew(cls, headers, raw, scope) ==
    /\ md = Unbuilt
    /\ md' = HeadersConstructed(cls, headers, raw, scope)
    /\ UNCHANGED <<selfvars, req, cells>>

InitMap ==
    /\ Construct({FALSE}, {<<>>}, {<<>>})
    /\ md = Unbuilt

NextMap ==
    \/ md = Unbuilt /\ \E cls \in MapClasses : \E value \in MapArguments(cls) : MapNew(cls, value)
    \/ md = Unbuilt /\ \E cls \in HeaderClasses, h \in HeadersArguments, r \in RawArguments,
                           sc \in ScopeArguments : HeadersNew(cls, h, r, sc)
    \/ \E k \in MapKeys : MapGetItem(k)
    \/ \E k \in StrKeys, d \in {None, Object("str", "y")} : MapGet(k, d)
    \/ \E k \in StrKeys, v \in MapValues : MapSetItem(k, v)
    \/ \E k \in StrKeys, vs \in {<<>>} \cup (MapValues \X MapValues) : MapSetList(k, vs)
    \/ \E k \in StrKeys, v \in MapValues : MapAppend(k, v)
    \/ \E k \in StrKeys, d \in MapValues : MapSetDefault(k, d)
    \/ \E k \in StrKeys : MapDelItem(k)
    \/ \E k \in StrKeys, d \in {None, Object("str", "y")} : MapPop(k, d)
    \/ MapPopItem
    \/ \E k \in StrKeys : MapPopList(k)
    \/ MapClear
    \/ Mutable /\ \E pairs \in UpdateArguments : MapUpdate(pairs)
    \/ md.op.name = "__init__" /\ \E other \in EqArguments : MapEquals(other)
    \/ MapReturned

SpecMap == InitMap /\ [][NextMap]_vars

----------------------------------------------------------------------------
(* A header collection under a sequence of method calls, in md as above.   *)
(* Keys are passed in several spellings; a raw list may hold a name that   *)
(* is not lower-case.                                                      *)

\* characters of a Vary value that add_vary_header is still called on
MaxVaryLen == 4

HeaderKeys == {Object("str", k) : k \in {"Vary", "vary", "VARY", "Accept", "accept"}}
HeaderValues == {Object("str", "1"), Object("str", "2")}
VaryValues == {Object("str", "a"), Object("str", "b")}

\* the headers and raw arguments of the model
MappingArguments ==
    {<<>>, <<Item("Accept", "1")>>, <<Item("Vary", "2"), Item("Accept", "1")>>,
     <<Item("VARY", "a")>>}

ListArguments ==
    PairLists({<<"accept", "1">>, <<"vary", "1">>, <<"vary", "2">>, <<"Vary", "1">>}, MaxUpdate)

IsHeaders == md.m.cls \in HeaderClasses

IsMutableHeaders == md.m.cls = "MutableHeaders"

HeadersGetItem(key) ==
    IsHeaders /\ Called("read", Op("__getitem__", key, None), Headers_getitem(md.m, key))

HeadersGetDefault(key, default) ==
    IsHeaders /\ Called("read", Op("get", key, default), Headers_get(md.m, key, default))

HeadersGetList(key) ==
    IsHeaders /\ Called("read", Op("getlist", key, None), Headers_getlist(md.m, key))

HeadersIn(key) ==
    IsHeaders /\ Called("read", Op("__contains__", key, None), Headers_contains(md.m, key))

HeadersSetItem(key, value) ==
    /\ IsMutableHeaders
    /\ Called("write", Op("__setitem__", key, value), MutableHeaders_setitem(md.m, key, value))

HeadersSetDefault(key, value) ==
    /\ IsMutableHeaders
    /\ Called("write", Op("setdefault", key, value), MutableHeaders_setdefault(md.m, key, value))

HeadersAppend(key, value) ==
    /\ IsMutableHeaders
    /\ Called("append", Op("append", key, value), MutableHeaders_append(md.m, key, value))

HeadersDelItem(key) ==
    /\ IsMutableHeaders
    /\ Called("write", Op("__delitem__", key, None), MutableHeaders_delitem(md.m, key))

HeadersAddVary(vary) ==
    /\ IsMutableHeaders
    /\ Len(HeadersGet(md.m._list, "vary", "")) <= MaxVaryLen
    /\ Called("write", Op("add_vary_header", None, vary),
              MutableHeaders_add_vary_header(md.m, vary))

InitHeaders == InitMap

NextHeaders ==
    \/ md = Unbuilt /\ \E cls \in HeaderClasses, h \in MappingArguments :
                           HeadersNew(cls, Given(h), Absent, Absent)
    \/ md = Unbuilt /\ \E cls \in HeaderClasses, r \in ListArguments :
                           HeadersNew(cls, Absent, Given(r), Absent)
    \/ \E k \in HeaderKeys : HeadersGetItem(k)
    \/ \E k \in HeaderKeys, d \in {None, Object("str", "2")} : HeadersGetDefault(k, d)
    \/ \E k \in HeaderKeys : HeadersGetList(k)
    \/ \E k \in HeaderKeys : HeadersIn(k)
    \/ IsMutableHeaders /\ \E k \in HeaderKeys, v \in HeaderValues : HeadersSetItem(k, v)
    \/ IsMutableHeaders /\ \E k \in HeaderKeys, v \in HeaderValues : HeadersSetDefault(k, v)
    \/ IsMutableHeaders /\ \E k \in HeaderKeys, v \in HeaderValues : HeadersAppend(k, v)
    \/ IsMutableHeaders /\ \E k \in HeaderKeys : HeadersDelItem(k)
    \/ IsMutableHeaders /\ \E v \in VaryValues : HeadersAddVary(v)
    \/ MapReturned

SpecHeaders == InitHeaders /\ [][NextHeaders]_vars

InitApp == Construct(BOOLEAN, InitMiddleware, InitHandlerMaps) /\ NoData

NextApp ==
    \/ \E v \in BOOLEAN : SetDebug(v)
    \/ \E d \in MiddlewareChoices : AddMiddleware(d)
    \/ \E k \in HandlerKeys, h \in HandlerChoices : AddExceptionHandler(k, h)

SpecApp == InitApp /\ [][NextApp]_vars

\* one request through the chain the constructor installed
Next ==
    \/ \E s \in ScopeChoices, t \in TransportChoices : Call(1, s, t)
    \/ \E m \in AppMessages : AppSend(1, m)
    \/ \E e \in AppFailures : AppRaise(1, e)
    \/ AppReturn(1)

Init == InitApp

Spec == Init /\ [][Next]_vars

\* the same scripted request twice, the chain possibly rebuilt in between
NextTwice ==
    \/ Next
    \/ Rebuild
    \/ CallAgain
    \/ ReplaySend
    \/ ReplayRaise
    \/ ReplayReturn

InitTwice ==
    /\ Construct(BOOLEAN, {<<>>, <<GZip(1)>>},
                 { <<>>,
                   <<Item(StatusKey(500), callable_handler)>>,
                   <<Item(ClassKey("Exception"), failing_handler),
                     Item(StatusKey(404), not_found)>> })
    /\ NoData

SpecTwice == InitTwice /\ [][NextTwice]_vars

----------------------------------------------------------------------------
(* Properties of the error boundary. *)

Done(r) == req[r].pc = "done"
Http(r) == req[r].scope.type = "http"

\* the boundary instance a request runs through
Boundary(r) == req[r].stack[1]

\* the number of response-start messages in a sequence of messages
RECURSIVE Starts(_)
Starts(messages) ==
    IF messages = <<>> THEN 0
    ELSE (IF IsStart(Head(messages)) THEN 1 ELSE 0) + Starts(Tail(messages))

BodyIndexes(messages) == {i \in 1..Len(messages) : IsBody(messages[i])}

\* there is a body message and the last one has more_body = false
LastBodyFinal(messages) ==
    /\ BodyIndexes(messages) # {}
    /\ LET last == CHOOSE i \in BodyIndexes(messages) : \A k \in BodyIndexes(messages) : k <= i
       IN ~MsgGet(messages[last], "more_body", FALSE)

\* a well-formed output of an application, possibly unfinished: one start
\* message, then body messages, none after a body with more_body = false
WellFormedPrefix(messages) ==
    \A i \in 1..Len(messages) :
        /\ (i = 1) => IsStart(messages[i])
        /\ (i > 1) => IsBody(messages[i])
        /\ (i > 2) => messages[i - 1].more_body

\* the transport takes at least k more messages after the first n
Delivers(r, n, k) ==
    ~req[r].transport.limited \/ req[r].transport.accepts >= n + k

\* the messages the transport takes out of a sequence handed to it
Accepted(r, messages) ==
    IF req[r].transport.limited /\ req[r].transport.accepts < Len(messages)
    THEN SubSeq(messages, 1, req[r].transport.accepts)
    ELSE messages

\* the handler the boundary calls for a failure it caught raises itself
HandlerFails(r) ==
    /\ ~Boundary(r).debug
    /\ Boundary(r).handler # None
    /\ Underlying(Boundary(r).handler).raises

\* C1 as stated: for an HTTP scope, whenever the wrapped application raises a
\* failure, the boundary's __call__ ends by raising that same failure, in all
\* cases, whatever the handler does.
C1_AlwaysSameFailure ==
    \A r \in Requests :
        (Done(r) /\ Http(r) /\ req[r].sem.arrived # NoExc)
            => req[r].outcome = [kind |-> "raised", exc |-> req[r].sem.arrived]

\* C1 amended: for an HTTP scope, whenever the wrapped application raises a
\* failure, the boundary's __call__ never returns normally.  It ends by
\* raising that same failure when the reply is computed and sent without a
\* new failure (debug page, generic reply, handler that returns; response
\* started or not); when the registered handler raises, the handler's
\* failure leaves instead, and when sending the reply raises, the failure of
\* the send leaves instead.
C1_NeverSwallowed ==
    \A r \in Requests :
        (Done(r) /\ Http(r) /\ req[r].sem.arrived # NoExc)
            => /\ req[r].outcome.kind = "raised"
               /\ req[r].outcome.exc =
                      IF IsException(req[r].sem.arrived) /\ HandlerFails(r)
                      THEN Exc("RuntimeError", 0)
                      ELSE IF /\ IsException(req[r].sem.arrived)
                              /\ ~req[r].sem.started
                              /\ ~Delivers(r, Len(req[r].sem.before), 2)
                      THEN Exc(req[r].transport.exc, 0)
                      ELSE req[r].sem.arrived

\* a failure was answered by a registered handler's response and raised again
C1_Witness ==
    /\ Done(1) /\ Http(1)
    /\ req[1].sem.handler_calls = 1
    /\ req[1].sem.replied
    /\ Len(req[1].wire) = 2
    /\ req[1].outcome = [kind |-> "raised", exc |-> req[1].failure]

\* C2 as stated: for any HTTP request through the boundary (here: with a
\* transport that takes every message, an application whose output is well
\* formed as far as it got, and no reply from exception translation) the
\* transport receives exactly one response-start message and the last body
\* message has more_body = false.
C2_OneStartAndFinalBody ==
    \A r \in Requests :
        ( /\ Done(r) /\ Http(r)
          /\ ~req[r].transport.limited
          /\ WellFormedPrefix(req[r].emitted)
          /\ req[r].em.handler_calls = 0
          /\ req[r].wire # <<>> )
            => /\ Starts(req[r].wire) = 1
               /\ LastBodyFinal(req[r].wire)

\* the state part of C2 amended
C2_ReplyOnlyIfNotStarted ==
    \A r \in Requests :
        (Done(r) /\ Http(r)) =>
            /\ req[r].sem.caught # NoExc /\ Starts(req[r].sem.before) <= 1
                   => Starts(req[r].wire) <= 1
            /\ req[r].sem.caught # NoExc
                   => /\ req[r].sem.started = req[r].layers[1].response_started
                      /\ Starts(req[r].sem.before) > 0 => req[r].sem.started
                      /\ req[r].sem.replied =
                             (req[r].sem.response # NoResponse /\ ~req[r].sem.started)
            /\ req[r].sem.caught # NoExc /\ req[r].sem.response # NoResponse
                   => req[r].wire =
                          IF ~req[r].sem.started
                          THEN Accepted(r, req[r].sem.before
                                           \o ResponseMessages(req[r].sem.response))
                          ELSE req[r].sem.before
            /\ req[r].sem.caught # NoExc /\ req[r].sem.response = NoResponse
                   => req[r].wire = req[r].sem.before
            /\ req[r].sem.caught # NoExc /\ req[r].sem.response # NoResponse
               /\ ~req[r].sem.started
               /\ Delivers(r, Len(req[r].sem.before), 2)
                   => LastBodyFinal(req[r].wire)

\* the flag of a request goes from false to true only
C2_FlagMonotone ==
    \A r \in Requests :
        (req[r].layers # <<>> /\ req[r].layers[1].response_started)
            => (req'[r].layers # <<>> /\ req'[r].layers[1].response_started)

\* C2 amended: for an HTTP request through the boundary whose wrapped
\* application forwarded at most one response-start message before failing,
\* the transport receives at most one; the per-request flag goes only from false
\* (awaiting the response start) to true (response started); after a failure for which a reply was computed, the reply
\* is sent if and only if no response-start message was forwarded through
\* the boundary's send wrapper before the failure, and when the transport
\* takes it its body is the last message and has more_body = false.  A response that the application started before it
\* failed is left as it is (no body, or a last body with more_body = true).
C2_ExactlyOnceStart == []C2_ReplyOnlyIfNotStarted /\ [][C2_FlagMonotone]_vars

\* both cases: a failure after the start message reached the transport, no
\* reply sent; seen here is the first, request 1 failing after its start
C2_Witness ==
    /\ Done(1) /\ Http(1)
    /\ req[1].sem.caught # NoExc
    /\ req[1].sem.response # NoResponse
    /\ req[1].layers[1].response_started
    /\ Starts(req[1].wire) = 1
    /\ ~LastBodyFinal(req[1].wire)

\* C3: an HTTP request fails with no generic handler registered and debug
\* off, nothing having been sent to the transport, which takes the reply: the
\* boundary sends one response-start with status 500 and one body
\* "Internal Server Error", and the failure is raised again.
C3_GenericReply ==
    \A r \in Requests :
        ( /\ Done(r) /\ Http(r)
          /\ IsException(req[r].sem.arrived)
          /\ ~Boundary(r).debug
          /\ Boundary(r).handler = None
          /\ ~req[r].sem.started
          /\ req[r].sem.before = <<>>
          /\ Delivers(r, 0, 2) )
            => /\ Len(req[r].wire) = 2
               /\ IsStart(req[r].wire[1])
               /\ req[r].wire[1].status = 500
               /\ IsBody(req[r].wire[2])
               /\ req[r].wire[2].body = "Internal Server Error"
               /\ ~req[r].wire[2].more_body
               /\ req[r].outcome = [kind |-> "raised", exc |-> req[r].sem.arrived]

C3_Witness ==
    /\ Done(1) /\ Http(1)
    /\ req[1].failure = Exc("ValueError", 0)
    /\ ~Boundary(1).debug
    /\ Boundary(1).handler = None
    /\ req[1].sem.before = <<>>
    /\ Len(req[1].wire) = 2

\* C4: on a failure under an HTTP scope the reply is chosen by priority:
\* debug on, the diagnostic response and no handler call; else a registered
\* handler, called exactly once (directly when asynchronous, through the
\* thread pool when synchronous), its result the reply; else the generic one.
C4_ReplyPriority ==
    \A r \in Requests :
        (Done(r) /\ Http(r) /\ IsException(req[r].sem.arrived)) =>
            LET b == Boundary(r)
                m == req[r].sem
            IN IF b.debug
               THEN /\ m.handler_calls = 0
                    /\ m.via = "none"
                    /\ m.response.status_code = 500
                    /\ m.response.body \in {generate_html(m.arrived),
                                            generate_plain_text(m.arrived)}
               ELSE IF b.handler # None
               THEN /\ m.handler_calls = 1
                    /\ m.via = IF Underlying(b.handler).coroutine
                                  \/ Underlying(b.handler).call_coroutine
                               THEN "direct" ELSE "threadpool"
                    /\ ~Underlying(b.handler).raises
                           => m.response = Response(Underlying(b.handler).name,
                                                    Underlying(b.handler).status,
                                                    "text/plain")
               ELSE /\ m.handler_calls = 0
                    /\ m.via = "none"
                    /\ m.response.body = "Internal Server Error"

\* an asynchronous handler wrapped in a partial was awaited directly
C4_Witness ==
    /\ Done(1) /\ Http(1)
    /\ Boundary(1).handler = partial_handler
    /\ ~Boundary(1).debug
    /\ req[1].sem.handler_calls = 1
    /\ req[1].sem.via = "direct"
    /\ req[1].sem.replied

\* C5: for a scope that is not HTTP the boundary hands the original send to
\* the wrapped application: the transport is handed every message sent
\* inside, as sent, and nothing else; a failure propagates unmodified, no
\* handler is called and the boundary sends nothing.
C5_NonHttpPassThrough ==
    \A r \in Requests :
        (Done(r) /\ ~Http(r)) =>
            /\ req[r].sem.caught = NoExc
            /\ req[r].sem.handler_calls = 0
            /\ ~req[r].sem.replied
            /\ ~req[r].layers[1].response_started
            /\ req[r].wire =
                   Accepted(r, req[r].emitted
                               \o (IF req[r].em.response # NoResponse
                                   THEN ResponseMessages(req[r].em.response) ELSE <<>>))
            /\ req[r].sem.arrived # NoExc
                   => req[r].outcome = [kind |-> "raised", exc |-> req[r].sem.arrived]

C5_Witness ==
    /\ Done(1) /\ ~Http(1)
    /\ req[1].sem.arrived = Exc("ValueError", 0)
    /\ Starts(req[1].wire) = 1
    /\ req[1].outcome.kind = "raised"

----------------------------------------------------------------------------
(* Properties of the pipeline composer. *)

\* an instance without its identity and its link to the wrapped instance
Anon(inst) == [k \in DOMAIN inst \ {"id", "app"} |-> inst[k]]

AnonChain(chain) == [i \in 1..Len(chain) |-> Anon(chain[i])]

\* C6: the chain is the error boundary, around the user middleware in list
\* order (first list element outermost), around exception translation, around
\* the application; each instance wraps the next one, and the instances were
\* constructed from the innermost outward, the last descriptor first.
C6_Nesting ==
    LET chain == middleware_stack
        n == Len(user_middleware)
    IN /\ Len(chain) = n + 3
       /\ chain[1].cls = "ServerErrorMiddleware"
       /\ \A i \in 1..n :
              /\ chain[i + 1].cls = user_middleware[i].cls
              /\ chain[i + 1].minimum_size = user_middleware[i].options.minimum_size
       /\ chain[n + 2].cls = "ExceptionMiddleware"
       /\ chain[n + 3] = Router
       /\ \A i \in 1..(n + 2) : chain[i].app = chain[i + 1].id
       /\ \A i \in 1..(n + 1) : chain[i].id > chain[i + 1].id

\* two different user layers, the one added last outermost
C6_Witness ==
    /\ Len(user_middleware) >= 2
    /\ user_middleware[1] # user_middleware[2]
    /\ mutations >= 1
    /\ middleware_stack[2].minimum_size = user_middleware[1].options.minimum_size

GenericKeys == {StatusKey(500), ClassKey("Exception")}

GenericItems(d) == SelectSeq(d, LAMBDA it : it.key \in GenericKeys)

OtherItems(d) == SelectSeq(d, LAMBDA it : it.key \notin GenericKeys)

\* C7: the handler registered for the generic server error (key 500 or the
\* base exception class; the one registered last when both are) is given to
\* the error boundary only, every handler under another key to exception
\* translation only; a failure matching a registered 404 handler, raised
\* before any body was sent (the transport taking the messages), is answered
\* by exception translation and the error boundary does not engage.
C7_Partition ==
    LET chain == middleware_stack
        sem == chain[1]
        em == chain[Len(chain) - 1]
        generic == GenericItems(exception_handlers)
    IN /\ sem.handler = IF generic = <<>> THEN None ELSE generic[Len(generic)].value
       /\ "handlers" \notin DOMAIN sem
       /\ em.handlers = OtherItems(exception_handlers)
       /\ "handler" \notin DOMAIN em
       /\ \A r \in Requests :
              ( /\ Done(r)
                /\ req[r].ended = "raise"
                /\ req[r].failure = Exc("HTTPException", 404)
                /\ StatusKey(404) \in DictKeys(exception_handlers)
                /\ BodyIndexes(req[r].emitted) = {}
                /\ ~req[r].transport.limited )
                  => LET h == exception_handlers[DictGet(exception_handlers,
                                                         StatusKey(404))].value
                     IN /\ req[r].em.handler_calls = 1
                        /\ req[r].sem.arrived = NoExc
                        /\ req[r].sem.handler_calls = 0
                        /\ ~req[r].sem.replied
                        /\ ~Underlying(h).raises =>
                               /\ req[r].em.response.body = Underlying(h).name
                               /\ req[r].outcome.kind = "returned"
                               /\ Starts(req[r].wire) >= 1

\* a 404 failure answered by its handler while a generic handler is registered too
C7_Witness ==
    /\ Done(1) /\ Http(1)
    /\ req[1].failure = Exc("HTTPException", 404)
    /\ Boundary(1).handler # None
    /\ req[1].em.handler_calls = 1
    /\ req[1].sem.handler_calls = 0
    /\ Len(req[1].wire) = 2
    /\ req[1].wire[1].status = 404
    /\ req[1].outcome.kind = "returned"

\* C8: a build leaves the user middleware list, the handler map and the
\* debug flag as it found them, building again from them gives the same
\* chain, and the chain installed is made of new instances (around the same
\* router) that replace the previous chain.
C8_BuildFrame ==
    /\ built.after = built.before
    /\ Inputs(Self) = built.after
    /\ AnonChain(build_middleware_stack(Self, nextId).app) = AnonChain(middleware_stack)
    /\ Ids(middleware_stack) \cap Ids(built.previous) \subseteq {RouterId}
    /\ middleware_stack # built.previous
    /\ middleware_stack[Len(middleware_stack)] = Router

\* a chain was replaced after a change of the configuration
C8_Witness ==
    /\ mutations >= 1
    /\ built.previous # <<>>
    /\ AnonChain(built.previous) # AnonChain(middleware_stack)

----------------------------------------------------------------------------
(* Order of the messages at the transport. *)

Keyed(messages) == {i \in 1..Len(messages) : "n" \in DOMAIN messages[i]}

\* no body message before the first start message
StartFirst(messages) ==
    \A i \in BodyIndexes(messages) : \E j \in 1..(i - 1) : IsStart(messages[j])

----------------------------------------------------------------------------
(* Cancellation. *)

\* the cancellation signal
Cancellation == Exc("CancelledError", 0)

\* the messages of a sequence that no application sent: made by a layer
Unsent(messages) == {i \in 1..Len(messages) : "n" \notin DOMAIN messages[i]}

\* C11: when a pending receive or send fails with the cancellation signal,
\* every layer lets it through: the call of the chain ends by raising the
\* cancellation; and when it is the application that the cancellation ends,
\* the boundary's except block does not run, no handler is called, no reply
\* is computed or sent and the transport holds only messages the application
\* itself sent (the gzip responder adds none).
C11_CancellationEscapes ==
    \A r \in Requests :
        /\ ( /\ Done(r)
             /\ \/ req[r].failure = Cancellation
                \/ req[r].refused /\ req[r].transport.exc = "CancelledError" )
               => req[r].outcome = [kind |-> "raised", exc |-> Cancellation]
        /\ (Done(r) /\ req[r].failure = Cancellation)
               => /\ req[r].sem.caught = NoExc
                  /\ req[r].sem.handler_calls = 0
                  /\ req[r].sem.response = NoResponse
                  /\ ~req[r].sem.replied
                  /\ req[r].em.caught = NoExc
                  /\ req[r].em.handler_calls = 0
                  /\ Unsent(req[r].wire) = {}

\* the scope was torn down while the gzip responder, under a boundary with a
\* registered handler, was sending the first compressed body of a stream
C11_Witness ==
    /\ Done(1) /\ Http(1)
    /\ Len(req[1].stack) = 4
    /\ Boundary(1).handler # None
    /\ req[1].transport = TornDown(1)
    /\ req[1].refused
    /\ req[1].ended = "send"
    /\ req[1].layers[2].responder
    /\ Len(req[1].emitted) = 2
    /\ IsBody(req[1].emitted[2])
    /\ req[1].emitted[2].more_body
    /\ Len(req[1].wire) = 1
    /\ req[1].outcome = [kind |-> "raised", exc |-> Cancellation]

----------------------------------------------------------------------------
(* Calls in progress at once. *)

InProgress(r) == req[r].pc # "idle"

\* the call of a request as it would stand had it been served on its own
ServedAlone(r) ==
    Alone(req[r].stack, req[r].scope, req[r].transport, req[r].emitted,
          req[r].ended, req[r].failure)

----------------------------------------------------------------------------
(* Properties of the ordered multi-map. *)

KeysIn(list) == {list[i][1] : i \in 1..Len(list)}

\* the value of the last pair of the list that has the key
LastValue(list, key) ==
    list[CHOOSE i \in 1..Len(list) :
             list[i][1] = key /\ \A j \in (i + 1)..Len(list) : list[j][1] # key][2]

\* the index of a map is derived from its pair sequence
IndexDerived(m) ==
    /\ keys(m) = KeysIn(m._list)
    /\ \A k \in keys(m) : DictValue(m._dict, k) = LastValue(m._list, k)

\* C13: after construction and after any sequence of method calls, the key
\* index of an ordered multi-map (of any of the three classes) holds exactly
\* the keys present in the pair sequence, each with the value of its last
\* occurrence in that sequence, and multi_items() is the pair sequence.
C13_IndexDerived ==
    md.m.cls \in MapClasses =>
        /\ IndexDerived(md.m)
        /\ multi_items(md.m) = md.m._list

\* the last call was the given method and it returned
Did(name) == md.op.name = name /\ md.raised = ""

\* the positions of a key in a list
Positions(list, key) == {i \in 1..Len(list) : list[i][1] = key}

\* the pairs of a list with another key, in order
Others(list, key) == SelectSeq(list, LAMBDA p : p[1] # key)

\* a list with the first occurrence of key replaced by (key, value) and the
\* later occurrences removed
ReplacedAtFirst(list, key, value) ==
    LET first == CHOOSE i \in Positions(list, key) : \A j \in Positions(list, key) : i <= j
    IN SubSeq(list, 1, first - 1) \o << <<key, value>> >>
           \o Others(SubSeq(list, first + 1, Len(list)), key)

\* C14 as stated: set(key, value) leaves one entry for key, at the position of
\* the first occurrence of key, or at the end if key was absent; the pairs
\* with other keys keep their relative order.
C14_SetAtFirstOccurrence ==
    Did("__setitem__") =>
        /\ md.m._list =
               IF Positions(md.before._list, md.op.key) = {}
               THEN Append(md.before._list, <<md.op.key, md.op.value>>)
               ELSE ReplacedAtFirst(md.before._list, md.op.key, md.op.value)
        /\ Others(md.m._list, md.op.key) = Others(md.before._list, md.op.key)

\* C14 amended: set(key, value) removes every occurrence of key and puts one
\* entry (key, value) at the end of the pair sequence, whether or not key was
\* present; the pairs with other keys keep their relative order.
C14_SetAtEnd ==
    Did("__setitem__") =>
        /\ Positions(md.m._list, md.op.key) = {Len(md.m._list)}
        /\ md.m._list[Len(md.m._list)] = <<md.op.key, md.op.value>>
        /\ Others(md.m._list, md.op.key) = Others(md.before._list, md.op.key)
        /\ Len(md.m._list) = Len(Others(md.before._list, md.op.key)) + 1

\* set on a key that occurred twice, the first time ahead of another key's pair
C14_Witness ==
    /\ Did("__setitem__")
    /\ Len(md.before._list) = 3
    /\ Positions(md.before._list, md.op.key) = {1, 3}
    /\ Len(md.m._list) = 2
    /\ md.m._list[1] = md.before._list[2]
    /\ md.m._list[2] = <<md.op.key, md.op.value>>

\* C15: in any reachable state of a multi-map, right after set(key, v) a
\* get(key) returns v (whatever default it is given) and getlist(key) has
\* length 1.
C15_SetThenGet ==
    Did("__setitem__") =>
        /\ get(md.m, md.op.key, None) = Ok(md.m, md.op.value)
        /\ getitem(md.m, md.op.key) = Ok(md.m, md.op.value)
        /\ Len(getlist(md.m, md.op.key)) = 1

\* set on a key that had two occurrences, the last with another value
C15_Witness ==
    /\ Did("__setitem__")
    /\ Len(getlist(md.before, md.op.key)) = 2
    /\ get(md.before, md.op.key, None).ret # md.op.value
    /\ getlist(md.m, md.op.key) = <<md.op.value>>

\* the classes of datastructures.py 252-387
Plain(m) == m.cls \in {"ImmutableMultiDict", "MultiDict"}

Removed(before, after, key) ==
    /\ Positions(after._list, key) = {}
    /\ after._list = Others(before._list, key)
    /\ keys(after) = keys(before) \ {key}
    /\ \A k \in keys(after) : DictValue(after._dict, k) = DictValue(before._dict, k)

\* C17: delete(key), for a key of the map, removes all occurrences of key
\* from the pair sequence and from the index and leaves the pairs of the
\* other keys as they were, in the same relative order; pop(key, default)
\* does the same and returns the last value of key, or returns the default
\* and leaves the map unchanged when key is absent.
C17_DeleteAndPop ==
    /\ Did("__delitem__") => Removed(md.before, md.m, md.op.key)
    /\ Did("pop") =>
           IF md.op.key \in KeysIn(md.before._list)
           THEN /\ Removed(md.before, md.m, md.op.key)
                /\ md.ret = LastValue(md.before._list, md.op.key)
           ELSE /\ md.m = md.before
                /\ md.ret = md.op.value
    /\ md.op.name = "pop" => md.raised = ""

\* pop of a key with two occurrences around another key's pair
C17_Witness ==
    /\ Did("pop")
    /\ Len(md.before._list) = 3
    /\ Positions(md.before._list, md.op.key) = {1, 3}
    /\ md.before._list[1][2] # md.before._list[3][2]
    /\ md.ret = md.before._list[3][2]
    /\ md.m._list = <<md.before._list[2]>>

\* the operations the sentence on error conditions lists, and the other
\* methods that take a key
Listed ==
    {"__getitem__", "__setitem__", "append", "__delitem__", "pop", "popitem",
     "setdefault", "update", "clear"}

\* C18 as stated: no listed operation raises, whether or not the key is
\* present and whether or not the map is empty.
C18_NeverRaises == md.op.name \in Listed => md.raised = ""

\* C18 amended: the only error condition is KeyError, raised by indexed get
\* of an absent key, by delete of an absent key and by popitem on an empty
\* map, each leaving the content of the map as it was; every other call of a
\* listed operation (and of get with a default, setlist and poplist)
\* completes without raising, key present or not, map empty or not.
C18_RaisesOnlyKeyError ==
    md.op.name \in Listed \cup {"get", "setlist", "poplist"} =>
        IF \/ md.op.name \in {"__getitem__", "__delitem__"} /\ md.op.key \notin keys(md.before)
           \/ md.op.name = "popitem" /\ md.before._list = <<>>
        THEN md.raised = "KeyError" /\ md.m = md.before
        ELSE md.raised = ""

\* indexed get of a key that a map with entries does not have
C18_Witness ==
    /\ md.op.name = "__getitem__"
    /\ md.before._list # <<>>
    /\ md.op.key \notin KeysIn(md.before._list)
    /\ md.raised = "KeyError"

----------------------------------------------------------------------------
(* Equality and construction of collections. *)

\* how often a pair occurs in a list
Count(list, p) == Cardinality({i \in 1..Len(list) : list[i] = p})

\* the lists hold the same pairs the same number of times
Permutation(l1, l2) ==
    /\ Len(l1) = Len(l2)
    /\ \A i \in 1..Len(l1) : Count(l1, l1[i]) = Count(l2, l1[i])

\* the operands of the == made last
Left == md.before
Right == md.op.value

SameKind == (Left.cls \in MapClasses) = (Right.cls \in MapClasses)

\* C19 as stated: two ordered multi-maps, and two header collections, are
\* equal exactly when their pair sequences are permutations of each other.
C19_EqualIffPermutation ==
    (md.op.name = "__eq__" /\ SameKind) =>
        /\ md.raised = ""
        /\ md.ret = Permutation(Left._list, Right._list)

\* all the keys of a list are of one type (the values of the model are)
OneKeyType(list) == \A i, j \in 1..Len(list) : list[i][1].type = list[j][1].type

\* C19 amended: two ordered multi-maps of the same class whose pairs can be
\* ordered are equal exactly when their pair sequences, duplicates included,
\* are permutations of each other; two header collections (Headers or
\* MutableHeaders, in any combination) likewise.  Two multi-maps of
\* different classes are not equal, and neither are a multi-map and a header
\* collection; the comparison of two multi-maps of the same class raises
\* TypeError when one of them has both int and str keys.
C19_EqualIffSameClassAndPermutation ==
    md.op.name = "__eq__" =>
        IF ~SameKind THEN Did("__eq__") /\ md.ret = FALSE
        ELSE IF Left.cls \in HeaderClasses
        THEN Did("__eq__") /\ md.ret = Permutation(Left._list, Right._list)
        ELSE IF Left.cls # Right.cls THEN Did("__eq__") /\ md.ret = FALSE
        ELSE IF OneKeyType(Left._list) /\ OneKeyType(Right._list)
        THEN Did("__eq__") /\ md.ret = Permutation(Left._list, Right._list)
        ELSE md.raised = "TypeError"

\* two maps of one class with the same two pairs in different order were
\* found equal
C19_Witness ==
    /\ Did("__eq__")
    /\ Left.cls = "MultiDict" /\ Right.cls = "MultiDict"
    /\ Len(Left._list) = 2
    /\ Left._list[1] # Left._list[2]
    /\ Right._list = <<Left._list[2], Left._list[1]>>
    /\ md.ret = TRUE

\* the last call was the constructor of a header collection
HeadersBuilt == md.op.name = "__init__" /\ md.m.cls \in HeaderClasses

\* the sources the constructor was given
Sources == {name \in {"headers", "raw", "scope"} : md.op.value[name] # Absent}

\* C20: the constructor of a header collection fails with an AssertionError
\* for every combination of more than one source (mapping and raw list,
\* mapping and scope, raw list and scope, all three) and succeeds otherwise:
\* with the lower-cased items of the mapping, with the raw list, with the
\* scope's header list, or empty when no source is given.
C20_OneSource ==
    HeadersBuilt =>
        IF Cardinality(Sources) > 1 THEN md.raised = "AssertionError"
        ELSE /\ md.raised = ""
             /\ Sources = {} => md.m._list = <<>>
             /\ Sources = {"raw"} => md.m._list = md.op.value.raw[1]
             /\ Sources = {"scope"} => md.m._list = md.op.value.scope[1].headers
             /\ Sources = {"headers"} =>
                    /\ Len(md.m._list) = Len(md.op.value.headers[1])
                    /\ \A i \in 1..Len(md.m._list) :
                           /\ md.m._list[i][1] = Lower(md.op.value.headers[1][i].key)
                           /\ md.m._list[i][2] = md.op.value.headers[1][i].value

\* a raw list and a scope were given, without a mapping
C20_Witness ==
    /\ HeadersBuilt
    /\ Sources = {"raw", "scope"}
    /\ md.raised = "AssertionError"

----------------------------------------------------------------------------
(* One request through an application with one GZipMiddleware, with start  *)
(* messages of several shapes and bodies below and at the minimum size.    *)

\* minimum_size of the middleware of this specification
GzipMinimumSize == 3

GzipScopes ==
    { Scope("http", <<>>),
      Scope("http", << <<"accept-encoding", "gzip, deflate">> >>),
      Scope("http", << <<"accept-encoding", "deflate">>, <<"accept-encoding", "gzip">> >>),
      Scope("http", << <<"accept-encoding", "br">> >>),
      Scope("websocket", << <<"accept-encoding", "gzip">> >>) }

\* a start message with other headers than StartMessage, and one without the key
PlainStart ==
    [type |-> ResponseStart, status |-> 200, headers |-> << <<"content-type", "text/plain">> >>]

BareStart == [type |-> ResponseStart, status |-> 200]

\* a message of another type
OtherMessage == [type |-> "http.response.trailers"]

GzipMessages ==
    {StartMessage, PlainStart, BareStart,
     BodyMessage("ab", FALSE), BodyMessage("abc", FALSE),
     BodyMessage("ab", TRUE), BodyMessage("abc", TRUE),
     [type |-> ResponseBody, body |-> "abc"], [type |-> ResponseBody], OtherMessage}

InitGzip == Construct({FALSE}, {<<GZip(GzipMinimumSize)>>}, {<<>>}) /\ NoData

NextGzip ==
    \/ \E scope \in GzipScopes, send \in {Unlimited, Accepting(1)} : Call(1, scope, send)
    \/ \E message \in GzipMessages : AppSend(1, message)
    \/ AppRaise(1, Exc("ValueError", 0))
    \/ AppReturn(1)

SpecGzip == InitGzip /\ [][NextGzip]_vars

----------------------------------------------------------------------------
(* The application reconfigured while it serves: configuration changes and *)
(* calls in any order, a call running on the chain it entered.             *)

InitServe == Construct({FALSE}, {<<>>, <<GZip(3)>>}, {<<>>}) /\ NoData

NextServe ==
    \/ \E v \in BOOLEAN : SetDebug(v)
    \/ AddMiddleware(GZip(1))
    \/ \E k \in {StatusKey(500), StatusKey(404)} : AddExceptionHandler(k, not_found)
    \/ \E r \in Requests : Call(r, Scope("http", <<>>), Unlimited)
    \/ \E r \in Requests : AppReturn(r)

SpecServe == InitServe /\ [][NextServe]_vars

----------------------------------------------------------------------------
(* C21..C24: header collections. *)

\* the header name a key spells, whatever its case
NameOf(key) == IF key.repr \in {"Vary", "vary", "VARY"} THEN "vary" ELSE "accept"

\* the other spellings of the key of the last call
Respelled == {k \in HeaderKeys : NameOf(k) = NameOf(md.op.key)}

\* the call named name on the collection h
HeaderCall(name, h, key, value) ==
    CASE name = "get" -> Headers_get(h, key, value)
      [] name = "getlist" -> Headers_getlist(h, key)
      [] name = "__contains__" -> Headers_contains(h, key)
      [] name = "__setitem__" -> MutableHeaders_setitem(h, key, value)
      [] name = "setdefault" -> MutableHeaders_setdefault(h, key, value)
      [] name = "append" -> MutableHeaders_append(h, key, value)
      [] name = "__delitem__" -> MutableHeaders_delitem(h, key)

CaseInsensitiveCalls ==
    {"get", "getlist", "__contains__", "__setitem__", "setdefault", "append", "__delitem__"}

\* C21: get, getlist, the membership test, set, setdefault, append and delete
\* on a header collection return the same value and leave the same
\* collection for every upper/lower-case spelling of the key.
C21_CaseInsensitive ==
    (IsHeaders /\ md.op.name \in CaseInsensitiveCalls /\ md.raised = "")
        => \A k \in Respelled :
               HeaderCall(md.op.name, md.before, k, md.op.value) = Result(md.m, md.ret, "")

\* a set spelled "VARY" has replaced the value of an entry named vary, and a
\* get spelled "Vary" has found one
C21_Witness ==
    \/ /\ IsHeaders /\ Did("__setitem__") /\ md.op.key = Object("str", "VARY")
       /\ Positions(md.before._list, "vary") # {}
       /\ md.m._list # md.before._list
    \/ /\ IsHeaders /\ Did("get") /\ md.op.key = Object("str", "Vary")
       /\ md.ret = Object("str", "1")

\* the entry the last call writes
Written == <<NameOf(md.op.key), md.op.value.repr>>

\* C22: on a mutable header collection set(key, value) replaces the first
\* entry of the key in place and removes the later ones, or appends an entry
\* when the key has none: one entry of the key remains and the entries of
\* other keys keep their values and order.  append(key, value) adds one
\* entry at the end and keeps every entry there was.
C22_SetInPlaceAppendAtEnd ==
    /\ (IsHeaders /\ Did("__setitem__"))
           => /\ md.m._list =
                     IF Positions(md.before._list, Written[1]) = {}
                     THEN Append(md.before._list, Written)
                     ELSE ReplacedAtFirst(md.before._list, Written[1], Written[2])
              /\ Cardinality(Positions(md.m._list, Written[1])) = 1
              /\ Others(md.m._list, Written[1]) = Others(md.before._list, Written[1])
    /\ (IsHeaders /\ Did("append")) => md.m._list = Append(md.before._list, Written)

\* a set of a key with two entries, the first of them not the first entry of
\* the collection, has left an entry behind it; or an append has added a
\* second entry of a key
C22_Witness ==
    \/ /\ IsHeaders /\ Did("__setitem__")
       /\ Cardinality(Positions(md.before._list, Written[1])) >= 2
       /\ md.before._list[1][1] # Written[1]
       /\ md.m._list[Len(md.m._list)][1] # Written[1]
    \/ /\ IsHeaders /\ Did("append")
       /\ Positions(md.before._list, Written[1]) # {}

\* C23: setdefault(key, value) on a mutable header collection leaves the
\* collection as it was and returns the value of the first entry of the key
\* when the key is present, and appends one entry and returns the given
\* value when it is absent.
C23_SetDefault ==
    (IsHeaders /\ Did("setdefault"))
        => IF Positions(md.before._list, Written[1]) # {}
           THEN /\ md.m = md.before
                /\ md.ret = Object("str", HeadersGet(md.before._list, Written[1], ""))
           ELSE /\ md.m._list = Append(md.before._list, Written)
                /\ md.ret = md.op.value

\* setdefault has been called with a value other than the present one
C23_Witness ==
    /\ IsHeaders /\ Did("setdefault")
    /\ Positions(md.before._list, Written[1]) # {}
    /\ md.ret # md.op.value

\* the value of the Vary header before the last call, or None
VaryBefore == Headers_get(md.before, Object("str", "vary"), None).ret

\* C24: add_vary_header(value) leaves one Vary header, whose value is the
\* value the header had, ", " and the added value, or the added value alone
\* when there was no Vary header; nothing is deduplicated, and the other
\* entries are kept.
C24_VaryJoined ==
    (IsHeaders /\ Did("add_vary_header"))
        => /\ Headers_getlist(md.m, Object("str", "vary")).ret =
                  << IF VaryBefore = None THEN md.op.value
                     ELSE Object("str", VaryBefore.repr \o ", " \o md.op.value.repr) >>
           /\ Others(md.m._list, "vary") = Others(md.before._list, "vary")

\* add_vary_header has been called twice with the same value
C24_Witness ==
    /\ IsHeaders /\ Did("add_vary_header")
    /\ md.op.value = Object("str", "a")
    /\ Headers_get(md.m, Object("str", "vary"), None).ret = Object("str", "a, a")

----------------------------------------------------------------------------
(* C25..C28, C30: the gzip middleware, as layer 2 of the chain of SpecGzip. *)

Called1 == req[1].pc # "idle"

\* the first Accept-Encoding header of the scope lists gzip
AcceptsGzip ==
    LET named == SelectSeq(req[1].scope.headers, LAMBDA p : p[1] = "accept-encoding")
    IN named # <<>> /\ Contains(named[1][2], "gzip")

\* a responder stands between the application and the send of the middleware
Active == Called1 /\ req[1].layers[2].responder

\* what the application sent and what the transport took
Out == req[1].emitted
Wire == req[1].wire

\* the messages on the wire that the application sent (as they are or rewritten)
OfApp(messages) == SelectSeq(messages, LAMBDA m : "n" \in DOMAIN m)

Final(message) == ~MsgGet(message, "more_body", FALSE)
BodyOf(message) == MsgGet(message, "body", "")
Small(message) == Len(BodyOf(message)) < GzipMinimumSize

\* the application has sent a start message, then a body message
StartThenBody == Len(Out) >= 2 /\ IsStart(Out[1]) /\ IsBody(Out[2])

\* the complete gzip stream of some data
Gzipped(data) == GzipHeader \o "[" \o data \o "]" \o ToString(Len(data))

\* the values of the headers of one name, and the headers of other names
Values(headers, name) ==
    LET named == SelectSeq(headers, LAMBDA p : p[1] = name)
    IN [i \in 1..Len(named) |-> named[i][2]]

Rest(headers) ==
    SelectSeq(headers, LAMBDA p : p[1] \notin {"content-encoding", "content-length", "vary"})

\* the Vary value after Accept-Encoding has been added to the headers
VaryWith(headers) ==
    IF Values(headers, "vary") = <<>> THEN "Accept-Encoding"
    ELSE Values(headers, "vary")[1] \o ", Accept-Encoding"

\* C25: the gzip middleware hands the call to a responder only for an HTTP
\* scope whose Accept-Encoding header lists gzip; otherwise the application
\* is called with the send the middleware was given, and every message it
\* sends reaches the transport as sent.
C25_OnlyWhenNegotiated ==
    Called1 =>
        /\ req[1].layers[2].responder <=> (Http(1) /\ AcceptsGzip)
        /\ ~(Http(1) /\ AcceptsGzip) => OfApp(Wire) = Accepted(1, Out)

\* an HTTP request without gzip in Accept-Encoding got a body of the minimum
\* size as sent
C25_Witness ==
    /\ Done(1) /\ Http(1) /\ ~AcceptsGzip
    /\ req[1].scope.headers # <<>>
    /\ Len(Out) = 2 /\ IsStart(Out[1]) /\ BodyOf(Out[2]) = "abc"
    /\ Wire = Out

\* C26: when the first body message is below the minimum size and final, the
\* responder forwards the start message and the body message as the
\* application sent them: same body, same headers.
C26_SmallBodyUnchanged ==
    (Active /\ StartThenBody /\ Small(Out[2]) /\ Final(Out[2]))
        => /\ Len(OfApp(Wire)) >= Len(Accepted(1, SubSeq(Out, 1, 2)))
           /\ SubSeq(OfApp(Wire), 1, Len(Accepted(1, SubSeq(Out, 1, 2))))
                  = Accepted(1, SubSeq(Out, 1, 2))

C26_Witness ==
    /\ Active /\ StartThenBody /\ Out[1] = SetKey(StartMessage, "n", 1)
    /\ BodyOf(Out[2]) = "ab" /\ Final(Out[2])
    /\ Wire = Out /\ Len(Wire) = 2

\* the start and body message of a response where the start message has headers
WithHeaders == StartThenBody /\ "headers" \in DOMAIN Out[1]

Open(i) == i >= 2 /\ IsBody(Out[i]) /\ \A k \in 2..(i - 1) : IsBody(Out[k]) => ~Final(Out[k])

RECURSIVE Bodies(_)
Bodies(messages) ==
    IF messages = <<>> THEN ""
    ELSE (IF IsBody(Head(messages)) THEN BodyOf(Head(messages)) ELSE "")
             \o Bodies(Tail(messages))

Streamed == {i \in 1..Len(Out) : Open(i)}

\* the body messages taken while the stream was open
StreamedOut == SelectSeq(Out, LAMBDA m : Open(m.n))

----------------------------------------------------------------------------
(* C29: the installed chain follows the configuration. *)

\* the chain of the current debug flag, user middleware list and handler
\* map, without the identities of its instances
CurrentChain ==
    LET generic == GenericItems(exception_handlers)
    IN << [cls |-> "ServerErrorMiddleware",
           handler |-> IF generic = <<>> THEN None ELSE generic[Len(generic)].value,
           debug |-> debug] >>
       \o [i \in 1..Len(user_middleware) |->
               [cls |-> user_middleware[i].cls,
                minimum_size |-> user_middleware[i].options.minimum_size]]
       \o << [cls |-> "ExceptionMiddleware", handlers |-> OtherItems(exception_handlers),
              debug |-> debug],
             [cls |-> "Router"] >>

Fresh == AnonChain(middleware_stack) = CurrentChain

\* a call enters the chain installed at that moment
EntersInstalled ==
    \A r \in Requests :
        (req[r].pc = "idle" /\ req'[r].pc # "idle")
            => req'[r].stack = middleware_stack /\ AnonChain(req'[r].stack) = CurrentChain

\* a descriptor added to the list is its first element, and its instance is
\* the second layer of the new chain, inside the boundary
AddedOutermost ==
    Len(user_middleware') > Len(user_middleware)
        => /\ Tail(user_middleware') = user_middleware
           /\ middleware_stack'[1].cls = "ServerErrorMiddleware"
           /\ middleware_stack'[2].cls = user_middleware'[1].cls
           /\ middleware_stack'[2].minimum_size = user_middleware'[1].options.minimum_size
           /\ middleware_stack'[1].app = middleware_stack'[2].id

\* C29: after construction and after every debug assignment, add_middleware
\* and add_exception_handler call, the installed chain is the one the
\* builder yields for the current debug flag, middleware list and handler
\* map, a call enters that chain, and a middleware added by add_middleware
\* is the outermost user layer, directly inside the error boundary.
C29_NeverStale == []Fresh /\ [][EntersInstalled /\ AddedOutermost]_vars

\* a call has entered a chain installed by add_middleware after another
\* change of the configuration
C29_Witness ==
    /\ mutations = 2
    /\ Len(user_middleware) >= 1
    /\ built.before.user_middleware # built.previous
    /\ Len(built.after.user_middleware) = Len(middleware_stack) - 3
    /\ AnonChain(built.previous) # AnonChain(middleware_stack)
    /\ req[1].pc = "done"
    /\ req[1].stack = middleware_stack
    /\ Len(req[1].stack) > Len(built.previous)

----------------------------------------------------------------------------
(* C31: what a responder never forwards. *)

\* the first body message the application sent, if any
FirstBody == CHOOSE i \in BodyIndexes(Out) : \A k \in BodyIndexes(Out) : i <= k

\* the messages of the application on the wire are start and body messages,
\* and a start message among them was sent before every body message
OnlyResponse ==
    Active =>
        \A i \in 1..Len(OfApp(Wire)) :
            LET m == OfApp(Wire)[i]
            IN /\ IsStart(m) \/ IsBody(m)
               /\ IsStart(m) => m.n < FirstBody

\* self.started is never reset
StartedStays ==
    (Active /\ req[1].layers[2].started) => req'[1].layers[2].started

\* C31: with a responder active, a message that is neither a response-start
\* nor a response-body message never reaches the transport, nor does a
\* response-start message sent after the first body message; started only
\* goes from false to true.
C31_OnlyResponseMessages == []OnlyResponse /\ [][StartedStays]_vars

\* the application sent a start and a body message, then a message of
\* another type: two messages are on the wire
C31_Witness ==
    /\ Active /\ Len(Out) = 3
    /\ IsStart(Out[1]) /\ IsBody(Out[2]) /\ Out[3].type = OtherMessage.type
    /\ Len(Wire) = 2 /\ Wire[2].n = 2
    /\ req[1].layers[2].started

----------------------------------------------------------------------------
(* C32: which entry a header lookup returns. *)

\* the name the last call looked up and its positions in the collection
Looked == Positions(md.before._list, NameOf(md.op.key))

FirstLooked == CHOOSE i \in Looked : \A k \in Looked : i <= k
LastLooked == CHOOSE i \in Looked : \A k \in Looked : k <= i

\* the pairs of a header list as the str pairs of a multi-map
AsStrPairs(list) ==
    [i \in 1..Len(list) |-> <<Object("str", list[i][1]), Object("str", list[i][2])>>]

\* C32: headers[key] and headers.get(key, default) return the value of the
\* first entry of the key, where a multi-map of the same pairs returns that
\* of the last; for an absent key headers[key] raises KeyError and get
\* returns the default; the collection is left as it was.
C32_FirstOccurrence ==
    (IsHeaders /\ md.op.name \in {"__getitem__", "get"})
        => /\ md.m = md.before
           /\ Looked # {}
                  => /\ md.raised = ""
                     /\ md.ret = Object("str", md.before._list[FirstLooked][2])
                     /\ getitem(ImmutableMultiDict("ImmutableMultiDict",
                                                   AsStrPairs(md.before._list)),
                                Object("str", NameOf(md.op.key))).ret
                            = Object("str", md.before._list[LastLooked][2])
           /\ Looked = {}
                  => IF md.op.name = "__getitem__" THEN md.raised = "KeyError"
                     ELSE md.raised = "" /\ md.ret = md.op.value

\* get has returned the first of two different values of a key
C32_Witness ==
    /\ IsHeaders /\ md.op.name = "get"
    /\ Cardinality(Looked) >= 2
    /\ md.before._list[FirstLooked][2] # md.before._list[LastLooked][2]
    /\ md.ret = Object("str", md.before._list[FirstLooked][2])

----------------------------------------------------------------------------
(* Header collections that hold their list by reference.  md holds the     *)
(* lists by identity (lists: the position is the identity), the header     *)
(* objects (objs: class, the identity of _list, how the object was built,  *)
(* whether one of its calls has changed its list) and the last call (op).  *)
(* The first list is the one the application holds and passes as raw= or   *)
(* as scope["headers"]; the first object is built on it, the second is     *)
(* derived from the first by mutablecopy() or by |.                        *)

\* the scope whose "headers" is the application's list
TheScope == [type |-> "http", headers |-> 1]

\* the raw argument: the same list
TheRaw == TheScope.headers

\* mutant: __init__ copies the list it is given
Headers_list_Copied(headers, raw, scope, new) == new

\* Headers.__init__: the list self._list is bound to, new being the list of
\* a comprehension or the empty one
Headers_list(headers, raw, scope, new) ==
    IF headers # Absent THEN new
    ELSE IF raw # Absent THEN raw[1]
    ELSE IF scope # Absent THEN scope[1].headers
    ELSE new

\* MutableHeaders.update, over the items of a mapping
RECURSIVE HeadersUpdate(_, _)
HeadersUpdate(list, other) ==
    IF other = <<>> THEN list
    ELSE HeadersUpdate(HeadersSet(list, Head(other).key, Head(other).value), Tail(other))

MutableHeaders_update(h, other) == Ok(HeaderList(h.cls, HeadersUpdate(h._list, other)), None)

\* isinstance(other, typing.Mapping)
IsMapping(other) == other.type = "dict"

\* a header object and the collection it is at present
HeaderObject(cls, list, from) == [cls |-> cls, list |-> list, from |-> from, wrote |-> FALSE]
ViewOf(lists, o) == HeaderList(o.cls, lists[o.list])

\* the contents a constructor call leaves in the list it is bound to
ContentsFor(lists, headers, raw, scope) ==
    IF headers # Absent THEN EncodedItems(headers[1])
    ELSE IF raw # Absent THEN lists[raw[1]]
    ELSE IF scope # Absent THEN lists[scope[1].headers]
    ELSE <<>>

\* the lists after cls(headers, raw, scope): one more when _list is a new one
ListsAfterInit(lists, headers, raw, scope) ==
    IF Headers_list(headers, raw, scope, Len(lists) + 1) = Len(lists) + 1
    THEN Append(lists, ContentsFor(lists, headers, raw, scope))
    ELSE lists

ShareOp(name, obj, raised) == [name |-> name, obj |-> obj, raised |-> raised]

\* the inputs
SharedLists == {<<>>, <<<<"accept", "1">>>>, <<<<"vary", "a">>, <<"accept", "1">>>>}
ShareKeys == {Object("str", "Accept")}
ShareValues == {Object("str", "2")}
ShareVary == {Object("str", "a")}
OrArguments ==
    {Object("dict", <<Item("Accept", "2"), Item("Vary", "a")>>),
     Object("list", <<<<"accept", "2">>>>)}

\* cls(raw=..) or cls(scope=..)
ShareNew(cls, headers, raw, scope, from) ==
    /\ md.objs = <<>>
    /\ md' = [lists |-> ListsAfterInit(md.lists, headers, raw, scope),
              objs |-> <<HeaderObject(cls, Headers_list(headers, raw, scope,
                                                        Len(md.lists) + 1), from)>>,
              op |-> ShareOp("__init__", Len(md.objs) + 1, "")]
    /\ UNCHANGED <<selfvars, req, cells>>

\* a method of object o that works on self._list where it is
InPlace(o, name, result) ==
    /\ md' = [lists |-> [md.lists EXCEPT ![md.objs[o].list] = result.m._list],
              objs |-> [md.objs EXCEPT ![o].wrote =
                            @ \/ result.m._list # md.lists[md.objs[o].list]],
              op |-> ShareOp(name, o, result.raised)]
    /\ UNCHANGED <<selfvars, req, cells>>

IsMutableObject(o) == md.objs[o].cls = "MutableHeaders"

Growable(o) == IsMutableObject(o) /\ Len(md.lists[md.objs[o].list]) < MaxUpdate

ShareSetItem(o, key, value) ==
    /\ Growable(o)
    /\ InPlace(o, "__setitem__", MutableHeaders_setitem(ViewOf(md.lists, md.objs[o]), key, value))

ShareAppend(o, key, value) ==
    /\ Growable(o)
    /\ InPlace(o, "append", MutableHeaders_append(ViewOf(md.lists, md.objs[o]), key, value))

ShareSetDefault(o, key, value) ==
    /\ Growable(o)
    /\ InPlace(o, "setdefault",
               MutableHeaders_setdefault(ViewOf(md.lists, md.objs[o]), key, value))

ShareDelItem(o, key) ==
    /\ IsMutableObject(o)
    /\ InPlace(o, "__delitem__", MutableHeaders_delitem(ViewOf(md.lists, md.objs[o]), key))

ShareAddVary(o, vary) ==
    /\ Growable(o)
    /\ Len(HeadersGet(md.lists[md.objs[o].list], "vary", "")) + Len(", a") <= MaxVaryLen
    /\ InPlace(o, "add_vary_header",
               MutableHeaders_add_vary_header(ViewOf(md.lists, md.objs[o]), vary))

\* a call that raises before it touches anything
ShareRaised(o, name, raised) ==
    /\ md' = [md EXCEPT !.op = ShareOp(name, o, raised)]
    /\ UNCHANGED <<selfvars, req, cells>>

\* MutableHeaders.__ior__
ShareIor(o, other) ==
    /\ Growable(o)
    /\ IF ~IsMapping(other) THEN ShareRaised(o, "__ior__", "TypeError")
       ELSE InPlace(o, "__ior__",
                    MutableHeaders_update(ViewOf(md.lists, md.objs[o]), other.repr))

\* the lists once self._list[:] has been made and MutableHeaders(raw=..) built on it
ListsAfterCopy(lists, list) ==
    ListsAfterInit(Append(lists, lists[list]), Absent, Given(Len(lists) + 1), Absent)

\* the list of the object mutablecopy() returns
CopyOf(lists) == Headers_list(Absent, Given(Len(lists) + 1), Absent, Len(lists) + 2)

\* the first object is there and nothing has been derived from it yet
Underived == Len(md.objs) = Len(<<TheRaw>>)

\* Headers.mutablecopy
ShareMutableCopy(o) ==
    /\ Underived
    /\ md' = [lists |-> ListsAfterCopy(md.lists, md.objs[o].list),
              objs |-> Append(md.objs,
                              HeaderObject("MutableHeaders", CopyOf(md.lists), "mutablecopy")),
              op |-> ShareOp("mutablecopy", o, "")]
    /\ UNCHANGED <<selfvars, req, cells>>

\* MutableHeaders.__or__
ShareOr(o, other) ==
    /\ Underived /\ Growable(o)
    /\ IF ~IsMapping(other) THEN ShareRaised(o, "__or__", "TypeError")
       ELSE /\ md' = [lists |-> [ListsAfterCopy(md.lists, md.objs[o].list)
                                    EXCEPT ![CopyOf(md.lists)] =
                                        HeadersUpdate(md.lists[md.objs[o].list], other.repr)],
                      objs |-> Append(md.objs,
                                      HeaderObject("MutableHeaders", CopyOf(md.lists),
                                                   "__or__")),
                      op |-> ShareOp("__or__", o, "")]
            /\ UNCHANGED <<selfvars, req, cells>>

InitShare ==
    /\ Construct({FALSE}, {<<>>}, {<<>>})
    /\ \E list \in SharedLists :
           md = [lists |-> <<list>>, objs |-> <<>>, op |-> ShareOp("", 0, "")]

NextShare ==
    \/ \E cls \in HeaderClasses : ShareNew(cls, Absent, Given(TheRaw), Absent, "raw")
    \/ \E cls \in HeaderClasses : ShareNew(cls, Absent, Absent, Given(TheScope), "scope")
    \/ \E o \in DOMAIN md.objs, k \in ShareKeys, v \in ShareValues : ShareSetItem(o, k, v)
    \/ \E o \in DOMAIN md.objs, k \in ShareKeys, v \in ShareValues : ShareAppend(o, k, v)
    \/ \E o \in DOMAIN md.objs, k \in ShareKeys, v \in ShareValues : ShareSetDefault(o, k, v)
    \/ \E o \in DOMAIN md.objs, k \in ShareKeys : ShareDelItem(o, k)
    \/ \E o \in DOMAIN md.objs, v \in ShareVary : ShareAddVary(o, v)
    \/ \E o \in DOMAIN md.objs, other \in OrArguments : ShareIor(o, other)
    \/ \E o \in DOMAIN md.objs : ShareMutableCopy(o)
    \/ \E o \in DOMAIN md.objs, other \in OrArguments : ShareOr(o, other)

SpecShare == InitShare /\ [][NextShare]_vars

----------------------------------------------------------------------------
(* C33: which header collections share their list. *)

\* built on the application's list
OnRaw(o) == o.from \in {"raw", "scope"}

\* derived by mutablecopy() or |
Derived(o) == o.from \in {"mutablecopy", "__or__"}

InPlaceCalls == {"__setitem__", "append", "setdefault", "__delitem__", "add_vary_header"}

\* what a collection built on the application's list holds is what that list
\* holds, whatever has been called on it
SharesRaw == \A o \in DOMAIN md.objs : OnRaw(md.objs[o]) => md.lists[md.objs[o].list] = md.lists[TheRaw]

\* a derived collection has a list of its own
OwnList ==
    \A o \in DOMAIN md.objs :
        Derived(md.objs[o]) => \A p \in DOMAIN md.objs : p # o => md.objs[p].list # md.objs[o].list

\* mutablecopy(), | and every call on what they returned leave the entries
\* of every other list as they were
LeavesOriginal ==
    \A o \in DOMAIN md'.objs :
        (Derived(md'.objs[o]) /\ (o \notin DOMAIN md.objs \/ md'.op.obj = o))
            => \A a \in DOMAIN md.lists : a # md'.objs[o].list => md'.lists[a] = md.lists[a]

\* C33: a collection built from a raw list or a scope works on that list, so
\* that what set, append, setdefault, delete and add_vary_header do is seen
\* in it; mutablecopy() and | return a collection with a list of its own, and
\* neither they nor a later call on what they returned change the entries of
\* the original.
C33_SharedUnlessCopied == [](SharesRaw /\ OwnList) /\ [][LeavesOriginal]_vars

\* each of the two has changed its list, the derived one last, and the lists differ
C33_Witness ==
    /\ Len(md.objs) > Len(<<TheRaw>>)
    /\ OnRaw(md.objs[1]) /\ md.objs[1].wrote
    /\ Derived(md.objs[2]) /\ md.objs[2].wrote
    /\ md.op.obj = 2 /\ md.op.name \in InPlaceCalls
    /\ md.lists[md.objs[2].list] # md.lists[TheRaw]

----------------------------------------------------------------------------
(* C34: MultiDict.update. *)

\* the keys of the pairs passed to the last call
KeysGiven == {md.op.value[i][1] : i \in 1..Len(md.op.value)}

\* the pairs the map held before the call under a key that was not passed
Remaining == SelectSeq(md.before._list, LAMBDA p : p[1] \notin KeysGiven)

\* C34: after update(other) the pair sequence is the former pairs whose key
\* is not a key of other, in their former order, followed by the pairs of
\* other in other's order, repeated keys included; a key that is not in
\* other has the value it had.
C34_UpdateReplaces ==
    (IsMap /\ Did("update"))
        => /\ md.m._list = Remaining \o md.op.value
           /\ \A i \in 1..Len(Remaining) : md.m._list[i][1] \notin KeysGiven
           /\ \A k \in DictKeys(md.before._dict) \ KeysGiven :
                  getitem(md.m, k) = Ok(md.m, DictValue(md.before._dict, k))

\* update took pairs away, kept others and added a key twice
C34_Witness ==
    /\ IsMap /\ Did("update")
    /\ Len(md.op.value) = 2
    /\ md.op.value[1][1] = md.op.value[2][1]
    /\ md.op.value[1][2] # md.op.value[2][2]
    /\ Remaining # <<>>
    /\ Len(Remaining) < Len(md.before._list)
    /\ Len(md.m._list) = Len(Remaining) + 2

====
